---- MODULE Spec2Model ----
(***************************************************************************)
(* A model of web-to-figma: the extractor (captureNode and its helpers,    *)
(* src/figma-plugin/code.js lines 324-1510) that turns a live DOM into an  *)
(* IR tree, and the synthesizer (safeLoadFont, createLayer and the IMPORT  *)
(* handler, src/unnamed/part_003) that rebuilds the IR as native nodes.    *)
(*                                                                         *)
(* Strings whose characters matter (text runs, font style names) are       *)
(* sequences of one-character strings; all other strings are atoms.        *)
(***************************************************************************)
EXTENDS Integers, Sequences, FiniteSets, TLC

VARIABLES
    dom,        \* extractor: the live document handed to the extractor
    stack,      \* extractor: the call stack of the running operation
    out,        \* extractor: what the operation returned (Pending before that)
    op,         \* extractor: "idle", "running", or the operation that produced out
    ir,         \* synthesizer: the data of the IMPORT message (an IR tree)
    catalog,    \* synthesizer: the fonts figma.loadFontAsync can load
    figma       \* synthesizer: the native document, the plugin's call stack,
                \* the notifications it issued and what its operation returned

extractVars == <<dom, stack, out, op>>
synthVars == <<ir, catalog, figma>>
vars == <<dom, stack, out, op, ir, catalog, figma>>

-----------------------------------------------------------------------------
(* null (for object-valued results) and "the operation has not run yet".   *)
Null == [null |-> TRUE]
Pending == [pending |-> TRUE]

Max(a, b) == IF a >= b THEN a ELSE b
Min(a, b) == IF a <= b THEN a ELSE b

Abs(n) == IF n < 0 THEN -n ELSE n

\* the plugin before it is given anything to do: an empty page, nothing running
FigmaIdle ==
    [scene |-> <<>>, calls |-> <<>>, loads |-> <<>>, viewport |-> <<>>,
     notice |-> <<>>, phase |-> "idle", result |-> Pending, suspended |-> <<>>]

\* the synthesizer takes no part in a run of the extractor
SynthIdle ==
    /\ ir = Null
    /\ catalog = {}
    /\ figma = FigmaIdle

\* field in obj
RECURSIVE SetToSortedSeq(_)
\* the elements of a finite set of integers, ascending
SetToSortedSeq(S) ==
    IF S = {} THEN <<>>
    ELSE LET m == CHOOSE x \in S : \A y \in S : x <= y
         IN  <<m>> \o SetToSortedSeq(S \ {m})

Has(obj, field) == field \in DOMAIN obj

\* obj.field || dflt, for a field whose values are all truthy
GetOr(obj, field, dflt) == IF field \in DOMAIN obj THEN obj[field] ELSE dflt

\* Object.assign({}, obj, extra)
Merge(obj, extra) ==
    [f \in (DOMAIN obj) \cup (DOMAIN extra) |->
        IF f \in DOMAIN extra THEN extra[f] ELSE obj[f]]

\* delete obj.f for every f in fields
Delete(obj, fields) == [f \in (DOMAIN obj) \ fields |-> obj[f]]

-----------------------------------------------------------------------------
(* Character strings.                                                      *)

\* the characters of the regular expression class [\t\n\r ] of collapseWhitespace
CollapsibleChars == {"\t", "\n", "\r", " "}

\* the characters String.prototype.trim and the class \s remove (those of them
\* the model's texts can hold)
JsWhiteSpace == {"\t", "\n", "\r", " ", "\f"}

RECURSIVE DropWhile(_, _)
DropWhile(s, chars) ==
    IF s # <<>> /\ Head(s) \in chars THEN DropWhile(Tail(s), chars) ELSE s

RECURSIVE DropLastWhile(_, _)
DropLastWhile(s, chars) ==
    IF s # <<>> /\ s[Len(s)] \in chars
    THEN DropLastWhile(SubSeq(s, 1, Len(s) - 1), chars)
    ELSE s

\* text.trim()
JsTrim(s) == DropLastWhile(DropWhile(s, JsWhiteSpace), JsWhiteSpace)

\* text.replace(/^\s+/, '')
ReplaceLeadingSpace(s) == DropWhile(s, JsWhiteSpace)

\* text.replace(/[\t\n\r ]+/g, ' ')
RECURSIVE CollapseRuns(_)
CollapseRuns(s) ==
    IF s = <<>> THEN <<>>
    ELSE IF Head(s) \in CollapsibleChars
         THEN <<" ">> \o CollapseRuns(DropWhile(Tail(s), CollapsibleChars))
         ELSE <<Head(s)>> \o CollapseRuns(Tail(s))

collapseWhitespace(text, trim) ==
    LET collapsed == CollapseRuns(text)
    IN  IF trim THEN JsTrim(collapsed) ELSE collapsed

-----------------------------------------------------------------------------
(* The live document.  A DOM node is a record; a text node has textContent *)
(* and no children, an element has a tag, a computed style and childNodes. *)
(* id is the node's identity (two nodes of one document never share it);   *)
(* rect is getBoundingClientRect() (for a text node the union of its       *)
(* client rects, hasRects telling whether it has any); texSource is the    *)
(* TeX annotation getMathContent finds under a math container;             *)
(* contentDocument is an inline frame's nested document, a record          *)
(* [body, scrollX, scrollY].                                               *)

IGNORED_TAGS == {"SCRIPT", "STYLE", "NOSCRIPT", "TEMPLATE", "HEAD", "BR", "VIDEO",
                 "CANVAS", "OBJECT", "EMBED"}
INLINE_TAGS == {"SPAN", "STRONG", "B", "EM", "I", "A", "CODE", "SUB", "SUP", "LABEL",
                "MARK", "SMALL", "BR"}

\* a computed z-index: the keyword auto or an integer
ZAuto == [keyword |-> "auto"]
ZInt(n) == [int |-> n]

\* a computed top / bottom offset: the keyword auto or a length in px
Auto == [keyword |-> "auto"]
Px(n) == [px |-> n]

\* getComputedStyle(element) of an unstyled block element
DefaultStyle ==
    [display |-> "block", visibility |-> "visible", opacity |-> 1,
     position |-> "static", zIndex |-> ZAuto, float |-> "none",
     top |-> Auto, bottom |-> Auto,
     whiteSpace |-> "normal", listStyleType |-> "disc",
     fontWeight |-> 400, fontStyle |-> "normal", fontFamily |-> "Inter",
     color |-> [rgb |-> "black", a |-> 1],
     backgroundColor |-> [rgb |-> "black", a |-> 0], backgroundImage |-> "none",
     borderTopWidth |-> 0, borderRightWidth |-> 0,
     borderBottomWidth |-> 0, borderLeftWidth |-> 0,
     borderTopColor |-> [rgb |-> "black", a |-> 1],
     borderRightColor |-> [rgb |-> "black", a |-> 1],
     borderBottomColor |-> [rgb |-> "black", a |-> 1],
     borderLeftColor |-> [rgb |-> "black", a |-> 1],
     borderCollapse |-> "separate", borderSpacing |-> <<0, 0>>,
     borderRadius |-> 0, topLeftRadius |-> 0, overflow |-> "visible",
     fill |-> <<>>,
     clip |-> "auto", clipPath |-> "none",
     flexDirection |-> "row", rowGap |-> 0, columnGap |-> 0,
     paddingTop |-> 0, paddingRight |-> 0, paddingBottom |-> 0, paddingLeft |-> 0,
     marginTop |-> 0, marginLeft |-> 0]

DefaultRect == [left |-> 0, top |-> 0, width |-> 10, height |-> 10]

\* The nodes of a document are objects with an identity: dom.nodes maps the
\* identity of a node to the node, and a node names its children, its parent
\* and the body of its nested document by their identities.
NoNode == 0
Node(id) == dom.nodes[id]

\* an element with the default style; the families below override fields
Element(id, tagName, childNodes) ==
    [id |-> id, nodeType |-> "ELEMENT_NODE", tagName |-> tagName, idAttr |-> <<>>,
     textContent |-> <<>>, style |-> DefaultStyle, rect |-> DefaultRect,
     offsetWidth |-> DefaultRect.width, offsetHeight |-> DefaultRect.height,
     hasRects |-> TRUE, classList |-> {}, ariaHidden |-> FALSE, texSource |-> <<>>,
     inputType |-> "", value |-> <<>>, placeholder |-> <<>>,
     contentDocument |-> Null, childNodes |-> childNodes]

TextNode(id, textContent) ==
    [id |-> id, nodeType |-> "TEXT_NODE", tagName |-> "#text", idAttr |-> <<>>,
     textContent |-> textContent, style |-> DefaultStyle, rect |-> DefaultRect,
     offsetWidth |-> DefaultRect.width, offsetHeight |-> DefaultRect.height,
     hasRects |-> TRUE, classList |-> {}, ariaHidden |-> FALSE, texSource |-> <<>>,
     inputType |-> "", value |-> <<>>, placeholder |-> <<>>,
     contentDocument |-> Null, childNodes |-> <<>>]

WithStyle(node, field, value) == [node EXCEPT !.style[field] = value]

-----------------------------------------------------------------------------
(* Text classifier and rich-text merger.                                   *)

PreserveModes == {"pre", "pre-wrap", "pre-line", "break-spaces"}
FlexGridDisplays == {"flex", "inline-flex", "grid", "inline-grid"}

\* normalizeFontWeight(weight) for the numeric weights computed styles hold
normalizeFontWeight(weight) ==
    IF weight <= 300 THEN "light"
    ELSE IF weight <= 400 THEN "regular"
    ELSE IF weight <= 500 THEN "medium"
    ELSE IF weight <= 600 THEN "semibold"
    ELSE IF weight <= 700 THEN "bold"
    ELSE IF weight <= 800 THEN "extrabold"
    ELSE "black"

isTextContainer(node) ==
    IF node.nodeType # "ELEMENT_NODE" THEN FALSE
    ELSE IF Len(node.childNodes) = 0 THEN FALSE
    ELSE LET style == node.style
             hasVisibleBackground ==
                 style.backgroundColor.a > 0 \/ style.backgroundImage # "none"
             hasVisibleBorder ==
                 \/ style.borderTopWidth > 0 \/ style.borderRightWidth > 0
                 \/ style.borderBottomWidth > 0 \/ style.borderLeftWidth > 0
         IN  IF hasVisibleBackground \/ hasVisibleBorder THEN FALSE
             ELSE IF style.display \in FlexGridDisplays THEN FALSE
             ELSE \A i \in 1..Len(node.childNodes) :
                    LET child == Node(node.childNodes[i])
                    IN  \/ child.nodeType = "TEXT_NODE"
                        \/ /\ child.nodeType = "ELEMENT_NODE"
                           /\ child.tagName \in INLINE_TAGS
                           /\ child.style.display \notin FlexGridDisplays

\* isTextContainer as the content script of the extension defines it
contentIsTextContainer(node) ==
    IF node.nodeType # "ELEMENT_NODE" THEN FALSE
    ELSE IF Len(node.childNodes) = 0 THEN FALSE
    ELSE LET style == node.style
             hasVisibleBackground ==
                 style.backgroundColor.a > 0 \/ style.backgroundImage # "none"
             hasVisibleBorder ==
                 \/ style.borderTopWidth > 0 \/ style.borderRightWidth > 0
                 \/ style.borderBottomWidth > 0 \/ style.borderLeftWidth > 0
         IN  IF hasVisibleBackground \/ hasVisibleBorder THEN FALSE
             ELSE \A i \in 1..Len(node.childNodes) :
                    LET child == Node(node.childNodes[i])
                    IN  \/ child.nodeType = "TEXT_NODE"
                        \/ /\ child.nodeType = "ELEMENT_NODE"
                           /\ child.tagName \in INLINE_TAGS
                           /\ ~(\/ child.style.backgroundColor.a > 0
                                \/ child.style.backgroundImage # "none")

OrderedListStyles == {"decimal", "decimal-leading-zero", "lower-roman", "upper-roman",
                      "lower-alpha", "upper-alpha"}

getListItemMarkerType(element) ==
    IF element.style.listStyleType = "none" THEN "null"
    ELSE IF element.style.listStyleType \in OrderedListStyles THEN "ORDERED"
    ELSE "UNORDERED"

\* the state of getRichTextData's closure: text and ranges
EmptyRichText == [text |-> <<>>, ranges |-> <<>>]

RECURSIVE walk(_, _, _)
RECURSIVE walkChildNodes(_, _, _, _)

\* walk(node) of getRichTextData; parent is node.parentElement and acc the
\* closure's text and ranges before the call
walk(node, parent, acc) ==
    IF node.nodeType = "TEXT_NODE" THEN
        LET preserveWhitespace == parent.style.whiteSpace \in PreserveModes
            content == IF preserveWhitespace THEN node.textContent
                       ELSE collapseWhitespace(node.textContent, FALSE)
        IN  IF Len(content) > 0
            THEN [text |-> acc.text \o content,
                  ranges |-> Append(acc.ranges,
                      [start |-> Len(acc.text),
                       end |-> Len(acc.text) + Len(content),
                       fontFamily |-> parent.style.fontFamily,
                       fontWeight |-> normalizeFontWeight(parent.style.fontWeight),
                       fontStyle |-> parent.style.fontStyle])]
            ELSE acc
    ELSE IF node.nodeType = "ELEMENT_NODE" THEN
        IF node.style.display = "none" THEN acc
        ELSE IF node.tagName = "BR" THEN [acc EXCEPT !.text = @ \o <<"\n">>]
        ELSE walkChildNodes(node.childNodes, 1, node, acc)
    ELSE acc

walkChildNodes(childNodes, i, parent, acc) ==
    IF i > Len(childNodes) THEN acc
    ELSE walkChildNodes(childNodes, i + 1, parent,
                        walk(Node(childNodes[i]), parent, acc))

\* the trim-and-adjust block of getRichTextData
trimAndAdjust(walked) ==
    LET originalLength == Len(walked.text)
        text == JsTrim(walked.text)
        diff == originalLength - Len(text)
        leadingSpaces == originalLength - Len(ReplaceLeadingSpace(text))
    IN  IF diff > 0
        THEN [text |-> text,
              ranges |-> [i \in 1..Len(walked.ranges) |->
                            [walked.ranges[i] EXCEPT
                                !.start = Max(0, @ - leadingSpaces),
                                !.end = Max(0, @ - leadingSpaces)]]]
        ELSE [text |-> text, ranges |-> walked.ranges]

getRichTextData(element) ==
    LET preserveContainerWhitespace == element.style.whiteSpace \in PreserveModes
        walked == walk(element, element, EmptyRichText)
        trimmed == IF preserveContainerWhitespace THEN walked ELSE trimAndAdjust(walked)
        listType == IF element.tagName = "LI" THEN getListItemMarkerType(element)
                    ELSE "null"
    IN  IF listType # "null"
        THEN [text |-> trimmed.text,
              ranges |-> [i \in 1..Len(trimmed.ranges) |->
                            [f \in DOMAIN trimmed.ranges[i] \cup {"listOptions"} |->
                                IF f = "listOptions" THEN listType
                                ELSE trimmed.ranges[i][f]]]]
        ELSE trimmed


-----------------------------------------------------------------------------
(* Stacking-order sorter: the comparator of captureNode's children.sort    *)
(* and Array.prototype.sort, which is stable: with a comparator that is    *)
(* the difference of two weights the result lists the children weight by   *)
(* weight, ascending, each weight's children in their original order.      *)

\* the weights with every positive z-index taken for zero
getWeightFlat(childLayer) ==
    IF childLayer.type = "TEXT" THEN 5
    ELSE IF GetOr(childLayer, "_position", "static") # "static"
    THEN IF Has(childLayer, "_zIndex") /\ childLayer._zIndex # ZAuto
            /\ childLayer._zIndex.int < 0
         THEN 1 ELSE 6
    ELSE IF GetOr(childLayer, "_float", "none") # "none" THEN 4
    ELSE 3

getWeight(childLayer) ==
    IF childLayer.type = "TEXT" THEN 5
    ELSE LET zIndexVal == IF Has(childLayer, "_zIndex") /\ childLayer._zIndex # ZAuto
                          THEN childLayer._zIndex.int ELSE 0
             position == GetOr(childLayer, "_position", "static")
             float == GetOr(childLayer, "_float", "none")
             isPositioned == position # "static"
         IN  IF isPositioned
             THEN IF zIndexVal < 0 THEN 1
                  ELSE IF zIndexVal > 0 THEN 6 + zIndexVal
                  ELSE 6
             ELSE IF float # "none" THEN 4
             ELSE 3

SetMin(S) == CHOOSE m \in S : \A n \in S : m <= n
SetMax(S) == CHOOSE m \in S : \A n \in S : m >= n

RECURSIVE ConcatByWeight(_, _)
ConcatByWeight(layers, weights) ==
    IF weights = {} THEN <<>>
    ELSE LET w == SetMin(weights)
         IN  SelectSeq(layers, LAMBDA c : getWeight(c) = w)
                 \o ConcatByWeight(layers, weights \ {w})

\* the children left in document order
keepOrder(children) == children

\* children.sort(compare)
sortChildren(children) ==
    ConcatByWeight(children, {getWeight(children[i]) : i \in 1..Len(children)})

\* children.forEach(child => { delete child._zIndex; ... })
stripSortKeys(children) ==
    [i \in 1..Len(children) |-> Delete(children[i], {"_zIndex", "_position", "_float"})]


-----------------------------------------------------------------------------
(* Extractor: captureNode.  env holds what the code reads from its         *)
(* surroundings: parentElement (node.parentElement), win (the node's       *)
(* window: scrollX, scrollY), scrollHeight (of the top document's root     *)
(* element) and table (the computed style of the closest table ancestor).  *)

DepthCeiling == 50
ChildCap == 500

\* the depth check taken one level too late
beyondCeilingLate(depth) == depth > DepthCeiling + 1

\* if (depth > 50) return null
beyondCeiling(depth) == depth > DepthCeiling

\* if (childCount > 500) break
capReached(childCount) == childCount > ChildCap

Half(n) == n \div 2

TableGroupDisplays == {"table-row-group", "table-header-group", "table-footer-group"}

\* the assistive / duplicate-rendering filter at the head of the element branch
isAssistiveDuplicate(node) ==
    /\ \/ "mjx-assistive-mml" \in node.classList
       \/ "katex-html" \in node.classList
       \/ node.ariaHidden
    /\ \/ "mjx-assistive-mml" \in node.classList
       \/ node.style.clip = "rect(1px, 1px, 1px, 1px)"
       \/ node.style.clipPath = "polygon"

isHidden(style) ==
    style.display = "none" \/ style.visibility = "hidden" \/ style.opacity = 0

\* the text-node branch of captureNode
captureTextNode(node, documentOffset, env) ==
    LET textContent == collapseWhitespace(node.textContent, TRUE)
        parent == Node(env.parentElement)
    IN  IF textContent = <<>> THEN Null
        ELSE IF env.parentElement = NoNode THEN Null
        ELSE IF isHidden(parent.style) THEN Null
        ELSE IF ~node.hasRects THEN Null
        ELSE [name |-> <<"Text">>, type |-> "TEXT",
              x |-> node.rect.left + env.win.scrollX + documentOffset.x,
              y |-> node.rect.top + env.win.scrollY + documentOffset.y,
              width |-> node.rect.width, height |-> node.rect.height,
              characters |-> textContent,
              fontFamily |-> parent.style.fontFamily,
              fontWeight |-> normalizeFontWeight(parent.style.fontWeight),
              fontStyle |-> parent.style.fontStyle,
              _zIndex |-> ZAuto, _position |-> "static", _float |-> "none"]

\* the table, table-row and table-group blocks: the fields they add to layer
tableFields(node, env) ==
    LET spacing(st) == IF st.borderCollapse = "collapse" THEN <<0, 0>> ELSE st.borderSpacing
        ofTable == IF node.style.display = "table"
                   THEN [isTable |-> TRUE,
                         tableRowGap |-> spacing(node.style)[2],
                         tableColGap |-> spacing(node.style)[1]]
                   ELSE <<>>
        ofRow == IF node.style.display = "table-row"
                 THEN IF env.table # Null
                      THEN [isTableRow |-> TRUE, tableColGap |-> spacing(env.table)[1]]
                      ELSE [isTableRow |-> TRUE]
                 ELSE <<>>
        ofGroup == IF node.style.display \in TableGroupDisplays
                   THEN IF env.table # Null
                        THEN [isTableGroup |-> TRUE, tableRowGap |-> spacing(env.table)[2]]
                        ELSE [isTableGroup |-> TRUE]
                   ELSE <<>>
    IN  Merge(Merge(ofTable, ofRow), ofGroup)

\* the border block: strokes and per-side stroke weights
strokeFields(styles) ==
    LET top == IF styles.borderTopColor.a > 0 THEN styles.borderTopWidth ELSE 0
        right == IF styles.borderRightColor.a > 0 THEN styles.borderRightWidth ELSE 0
        bottom == IF styles.borderBottomColor.a > 0 THEN styles.borderBottomWidth ELSE 0
        left == IF styles.borderLeftColor.a > 0 THEN styles.borderLeftWidth ELSE 0
        bColor == IF top > 0 THEN styles.borderTopColor
                  ELSE IF right > 0 THEN styles.borderRightColor
                  ELSE IF bottom > 0 THEN styles.borderBottomColor
                  ELSE styles.borderLeftColor
    IN  IF top > 0 \/ right > 0 \/ bottom > 0 \/ left > 0
        THEN [strokes |-> <<[type |-> "SOLID", color |-> bColor.rgb, opacity |-> bColor.a]>>,
              strokeTopWeight |-> top, strokeRightWeight |-> right,
              strokeBottomWeight |-> bottom, strokeLeftWeight |-> left,
              strokeWeight |-> Max(Max(top, right), Max(bottom, left))]
        ELSE <<>>

\* the form-control block: the synthetic children of INPUT, TEXTAREA, SELECT
formChildren(node, x, y, width, height) ==
    IF node.tagName \notin {"INPUT", "TEXTAREA", "SELECT"} THEN <<>>
    ELSE IF node.tagName = "INPUT" /\ node.inputType = "color"
    THEN <<[name |-> <<"Color Value">>, type |-> "RECTANGLE",
            x |-> x, y |-> y, width |-> width, height |-> height,
            cornerRadius |-> 2, fill |-> node.value]>>
    ELSE LET isPlaceholder == node.tagName # "SELECT" /\ node.value = <<>>
                                  /\ node.placeholder # <<>>
             valueText == IF isPlaceholder THEN node.placeholder ELSE node.value
         IN  IF valueText # <<>>
             THEN <<[name |-> IF isPlaceholder THEN <<"Placeholder">> ELSE <<"Value">>,
                     type |-> "TEXT",
                     x |-> x, y |-> y, width |-> width, height |-> height,
                     characters |-> valueText,
                     fontFamily |-> node.style.fontFamily,
                     fontWeight |-> normalizeFontWeight(node.style.fontWeight),
                     textAlignVertical |-> "CENTER"]>>
             ELSE <<>>

(* captureNode calls itself for the body of an inline frame and for every   *)
(* child node.  Its activations are kept on an explicit call stack: a      *)
(* frame holds the arguments of one call, the position the call has        *)
(* reached (pc) and its locals.  env holds what the call reads from        *)
(* outside its arguments: node.parentElement, the window scroll offsets of *)
(* the document being captured, document.documentElement.scrollHeight and  *)
(* the computed style of the closest TABLE ancestor.                       *)

Call(node, depth, skipNodes, parentYAdjustment, documentOffset, env) ==
    [kind |-> "captureNode", pc |-> "enter",
     node |-> node, depth |-> depth, skipNodes |-> skipNodes,
     parentYAdjustment |-> parentYAdjustment, documentOffset |-> documentOffset,
     env |-> env,
     layer |-> Null, children |-> <<>>, childCount |-> 0, next |-> 1,
     currentYAdjustment |-> 0]

\* what a step of an activation comes to: it returns value to its caller, or
\* it goes on as frame after the calls it makes (at most one) have returned,
\* or it throws error to the nearest try block around it
Return(value) == [returns |-> TRUE, throws |-> FALSE, value |-> value]
Throw(error) == [returns |-> TRUE, throws |-> TRUE, value |-> error]
Continue(frame, calls) == [returns |-> FALSE, frame |-> frame, calls |-> calls]

Digits == {"0", "1", "2", "3", "4", "5", "6", "7", "8", "9"}

\* whether querySelector(`#${id}`) throws: "#" followed by id is no selector
\* when id does not begin as an identifier does
querySelectorThrows(id) == id = <<>> \/ id[1] \in Digits

\* inlineSvgStyles(svgElement): the computed fill of the element, when it is
\* url(#id), has its id looked up in the clone with querySelector
inlineSvgStyles(node) ==
    LET referencedIds == IF node.style.fill # <<>> THEN {node.style.fill} ELSE {}
    IN  IF \E id \in referencedIds : querySelectorThrows(id)
        THEN Throw("SyntaxError")
        ELSE Return(<<"svg", node.id>>)

\* the form-control block, which pushes its children after the children the
\* inline-frame block pushed; the loop over childNodes comes next
afterFrame(f, bodyLayer) ==
    LET node == Node(f.node)
        styles == node.style
    IN  [f EXCEPT
            !.pc = "loop",
            !.children =
                (IF bodyLayer # Null THEN <<bodyLayer>> ELSE <<>>)
                    \o formChildren(node,
                           f.layer.x + styles.paddingLeft,
                           f.layer.y + styles.paddingTop,
                           f.layer.width - styles.paddingLeft - styles.paddingRight,
                           f.layer.height - styles.paddingTop - styles.paddingBottom)]

\* captureNode from its first line to its first nested call or early return
captureEnter(f) ==
    LET node == Node(f.node)
        env == f.env
        documentOffset == f.documentOffset
    IN
    IF beyondCeiling(f.depth) THEN Return(Null)
    ELSE IF node.id \in f.skipNodes THEN Return(Null)
    ELSE IF node.nodeType = "TEXT_NODE"
    THEN Return(captureTextNode(node, documentOffset, env))
    ELSE IF node.nodeType # "ELEMENT_NODE" THEN Return(Null)
    ELSE IF node.tagName \in IGNORED_TAGS THEN Return(Null)
    ELSE IF isAssistiveDuplicate(node) THEN Return(Null)
    ELSE IF isHidden(node.style) THEN Return(Null)
    ELSE IF node.rect.width < 1 /\ node.rect.height < 1 /\ node.tagName # "BODY"
    THEN Return(Null)
    ELSE
    LET win == env.win
        rect == node.rect
        styles == node.style
        \* an SVG element is no HTMLElement: it has no offset box
        transformed == /\ node.tagName \notin {"svg", "SVG"}
                       /\ \/ Abs(rect.width - node.offsetWidth) > 2
                          \/ Abs(rect.height - node.offsetHeight) > 2
        finalWidth == IF transformed THEN node.offsetWidth ELSE rect.width
        finalHeight == IF transformed THEN node.offsetHeight ELSE rect.height
        xCorrection == IF transformed THEN Half(rect.width - finalWidth) ELSE 0
        yCorrection == IF transformed THEN Half(rect.height - finalHeight) ELSE 0
        absX == rect.left + win.scrollX + documentOffset.x
        scrolledY == rect.top + win.scrollY + documentOffset.y
        mathContent == node.texSource
        type == IF node.tagName = "IMG" THEN "IMAGE"
                ELSE IF node.tagName \in {"svg", "SVG"} THEN "SVG"
                ELSE "FRAME"
        fixedTop == styles.position = "fixed" /\ styles.top # Auto
        fixedBottom == styles.position = "fixed" /\ styles.top = Auto
                           /\ styles.bottom # Auto
        absY == IF fixedTop THEN rect.top + documentOffset.y
                ELSE IF fixedBottom THEN env.scrollHeight - finalHeight - styles.bottom.px
                ELSE IF styles.position # "fixed" /\ f.parentYAdjustment # 0
                     THEN scrolledY + f.parentYAdjustment
                ELSE scrolledY
        currentYAdjustment == IF fixedTop THEN 0 - win.scrollY
                              ELSE IF fixedBottom THEN absY - scrolledY
                              ELSE f.parentYAdjustment
        layer == Merge([name |-> IF node.idAttr # <<>> THEN <<"#">> \o node.idAttr
                                 ELSE <<node.tagName>>,
                        type |-> type,
                        x |-> absX + xCorrection, y |-> absY + yCorrection,
                        width |-> finalWidth, height |-> finalHeight,
                        cornerRadius |-> styles.borderRadius,
                        topLeftRadius |-> styles.topLeftRadius,
                        opacity |-> styles.opacity,
                        clipsContent |-> styles.overflow # "visible",
                        fills |-> <<>>, children |-> <<>>,
                        _zIndex |-> styles.zIndex, _position |-> styles.position,
                        _float |-> styles.float],
                       tableFields(node, env))
        richText == getRichTextData(node)
        nested == node.contentDocument
        started == [f EXCEPT !.layer = layer,
                             !.currentYAdjustment = currentYAdjustment]
    IN
    IF mathContent # <<>>
    THEN Return([name |-> <<"Math (LaTeX)">>, type |-> "TEXT",
                 x |-> absX + xCorrection, y |-> scrolledY + yCorrection,
                 width |-> finalWidth, height |-> finalHeight,
                 characters |-> mathContent,
                 fontFamily |-> "Roboto Mono", fontWeight |-> "regular",
                 _zIndex |-> styles.zIndex, _position |-> styles.position,
                 _float |-> styles.float])
    ELSE IF isTextContainer(node) /\ Len(node.childNodes) > 0 /\ Len(richText.ranges) > 0
    THEN Return([layer EXCEPT !.children =
            <<[name |-> <<"Rich Text">>, type |-> "TEXT",
               x |-> absX + xCorrection, y |-> absY + yCorrection,
               width |-> finalWidth, height |-> finalHeight,
               characters |-> richText.text,
               fontFamily |-> styles.fontFamily,
               fontWeight |-> normalizeFontWeight(styles.fontWeight),
               styleRanges |-> richText.ranges]>>])
    ELSE IF type = "SVG"
    THEN IF inlineSvgStyles(node).throws THEN inlineSvgStyles(node)
         ELSE Return(Merge(layer, [svgContent |-> inlineSvgStyles(node).value]))
    ELSE IF node.tagName = "IFRAME" /\ nested # Null
    THEN Continue([started EXCEPT !.pc = "iframe"],
                  <<Call(nested.body, f.depth + 1, f.skipNodes, 0,
                         [x |-> absX + styles.borderLeftWidth - nested.scrollX,
                          y |-> absY + styles.borderTopWidth - nested.scrollY],
                         [env EXCEPT !.parentElement = NoNode,
                                     !.win = [scrollX |-> nested.scrollX,
                                              scrollY |-> nested.scrollY],
                                     !.table = Null])>>)
    ELSE Continue(afterFrame(started, Null), <<>>)

\* the end of captureNode: fills, strokes, the sort of layer.children, the
\* removal of the sort keys from the children, and the return of layer
captureFinish(f) ==
    LET styles == Node(f.node).style
        fills == IF styles.backgroundColor.a > 0
                 THEN <<[type |-> "SOLID", color |-> styles.backgroundColor.rgb,
                         opacity |-> styles.backgroundColor.a]>>
                 ELSE <<>>
    IN  [Merge(f.layer, strokeFields(styles)) EXCEPT
            !.fills = fills,
            !.children = stripSortKeys(sortChildren(f.children))]

\* the call of captureNode the loop of the activation f makes for the i-th
\* child node
childCall(f, i) ==
    LET node == Node(f.node)
    IN  Call(node.childNodes[i], f.depth + 1, f.skipNodes,
             f.currentYAdjustment, f.documentOffset,
             [f.env EXCEPT !.parentElement = node.id,
                           !.table = IF node.tagName = "TABLE" THEN node.style ELSE @])

\* what a call comes to, entered telling how it began: a call that returns
\* early has returned; a call for a node without child nodes that calls
\* nothing (its node is no inline frame) has run to its end
leafOutcome(call, entered) ==
    IF ~entered.returns /\ entered.calls = <<>>
          /\ Len(Node(call.node).childNodes) = 0
    THEN Return(captureFinish(entered.frame))
    ELSE entered

\* The loop over node.childNodes from the child f.next on, outcomes[i] being
\* what the call for the i-th child comes to.  The calls that return without
\* a call of their own run within this step, and the loop pushes the layers
\* they return; the step ends with the call for the first child whose call
\* has calls of its own to make (the loop goes on when it returns), with the
\* break, past the last child (captureNode returns), or with the first child
\* whose call throws (the loop has no try block: captureNode throws).
loopOutcome(f, outcomes) ==
    LET n == Len(Node(f.node).childNodes)
        deep == {i \in f.next..n : ~outcomes[i].returns}
        thrown == {i \in f.next..n : outcomes[i].returns /\ outcomes[i].throws}
        layered == {i \in f.next..n : /\ outcomes[i].returns
                                      /\ ~outcomes[i].throws
                                      /\ outcomes[i].value # Null}
        \* childCount at the head of the turn for child i
        childCount(i) == f.childCount + Cardinality({j \in layered : j < i})
        turns == {i \in f.next..n :
                    i \in deep \/ i \in thrown \/ capReached(childCount(i))}
        stop == IF turns = {} THEN n + 1 ELSE SetMin(turns)
        returned == [k \in 1..(stop - f.next) |-> outcomes[f.next + k - 1].value]
        pushed == SelectSeq(returned, LAMBDA childLayer : childLayer # Null)
        g == [f EXCEPT
                !.children = @ \o pushed,
                !.childCount = @ + Len(pushed),
                !.next = stop]
    IN  IF stop > n THEN Return(captureFinish(g))
        ELSE IF capReached(g.childCount) THEN Return(captureFinish(g))
        ELSE IF stop \in thrown THEN outcomes[stop]
        ELSE Continue(g, <<childCall(f, stop)>>)

captureLoop(f) ==
    loopOutcome(f, [i \in f.next..Len(Node(f.node).childNodes) |->
                      leafOutcome(childCall(f, i), captureEnter(childCall(f, i)))])

\* the activation f of captureNode gets back childLayer from the call it made
captureResume(f, childLayer) ==
    IF f.pc = "iframe" THEN afterFrame(f, childLayer)
    ELSE IF childLayer # Null
    THEN [f EXCEPT !.children = Append(@, childLayer),
                   !.childCount = @ + 1,
                   !.next = @ + 1]
    ELSE [f EXCEPT !.next = @ + 1]


-----------------------------------------------------------------------------
(* The CAPTURE command.  A document is a record [body, scrollX, scrollY,   *)
(* scrollWidth, scrollHeight].                                             *)

Origin == [x |-> 0, y |-> 0]

\* what captureNode reads from its surroundings at the top of a document
TopEnv(document) ==
    [parentElement |-> NoNode,
     win |-> [scrollX |-> document.scrollX, scrollY |-> document.scrollY],
     scrollHeight |-> document.scrollHeight,
     table |-> Null]

RECURSIVE positionedRootsIn(_, _, _, _, _, _)

\* the part of findRootPositionedElements's walk below parent, over
\* parent.childNodes[lo..hi]: the elements whose position is in positions and
\* that have no ancestor below rootNode with such a position (hasAncestor tells
\* whether parent or an ancestor of it below rootNode has one), in document
\* order, each with the computed style of its closest table ancestor
positionedRootsIn(parent, lo, hi, positions, hasAncestor, table) ==
    IF lo > hi THEN <<>>
    ELSE IF lo = hi
    THEN LET node == Node(parent.childNodes[lo])
             accepted == node.style.position \in positions
         IN  IF node.nodeType # "ELEMENT_NODE" THEN <<>>
             ELSE (IF accepted /\ ~hasAncestor
                   THEN <<[node |-> node.id, table |-> table]>> ELSE <<>>)
                  \o positionedRootsIn(node, 1, Len(node.childNodes), positions,
                                       hasAncestor \/ accepted,
                                       IF node.tagName = "TABLE" THEN node.style ELSE table)
    ELSE LET mid == (lo + hi) \div 2
         IN  positionedRootsIn(parent, lo, mid, positions, hasAncestor, table)
                \o positionedRootsIn(parent, mid + 1, hi, positions, hasAncestor, table)

findRootPositionedElements(rootNode, positions) ==
    positionedRootsIn(Node(rootNode), 1, Len(Node(rootNode).childNodes), positions,
                      FALSE, Null)

\* an activation of the listener that finds, in fixedLayers, the layers the
\* activation before it left there
listenerKeepingLayers ==
    [kind |-> "onMessage", pc |-> "enter",
     fixedRoots |-> <<>>, stickyRoots |-> <<>>, skipNodes |-> {},
     fixedLayers |-> IF Has(out, "data")
                     THEN out.data.children[Len(out.data.children)].children
                     ELSE <<>>,
     stickyLayers |-> <<>>, next |-> 1]

\* the activation of the listener of chrome.runtime.onMessage for a request
\* of type CAPTURE
Listener ==
    [kind |-> "onMessage", pc |-> "enter",
     fixedRoots |-> <<>>, stickyRoots |-> <<>>, skipNodes |-> {},
     fixedLayers |-> <<>>, stickyLayers |-> <<>>, next |-> 1]

\* the listener from where it stands to its next call of captureNode, or to
\* the response it sends
listenerStep(f) ==
    LET document == dom
        group(name, children) ==
            [name |-> <<name>>, type |-> "FRAME", x |-> 0, y |-> 0,
             width |-> document.scrollWidth, height |-> document.scrollHeight,
             children |-> children]
        \* roots.map(node => captureNode(node, 0, new Set()))
        mapped(root) ==
            Call(root.node, 0, {}, 0, Origin,
                 [TopEnv(document) EXCEPT !.table = root.table])
    IN  CASE f.pc = "enter" ->
                LET fixedRoots == findRootPositionedElements(document.body, {"fixed"})
                    stickyRoots == findRootPositionedElements(document.body, {"sticky"})
                IN  Continue([f EXCEPT
                        !.pc = "fixedRoots",
                        !.fixedRoots = fixedRoots,
                        !.stickyRoots = stickyRoots,
                        !.skipNodes =
                            {fixedRoots[i].node : i \in 1..Len(fixedRoots)}
                                \cup {stickyRoots[i].node : i \in 1..Len(stickyRoots)}],
                        <<>>)
          [] f.pc = "fixedRoots" ->
                IF f.next <= Len(f.fixedRoots)
                THEN Continue(f, <<mapped(f.fixedRoots[f.next])>>)
                ELSE Continue([f EXCEPT !.pc = "stickyRoots", !.next = 1], <<>>)
          [] f.pc = "stickyRoots" ->
                IF f.next <= Len(f.stickyRoots)
                THEN Continue(f, <<mapped(f.stickyRoots[f.next])>>)
                ELSE Continue([f EXCEPT !.pc = "body"],
                              <<Call(document.body, 0, f.skipNodes, 0, Origin,
                                     TopEnv(document))>>)
          [] f.pc = "catch" -> Return([error |-> f.error])
          [] f.pc = "respond" ->
                Return([data |->
                    group("Page",
                          f.otherGroup
                              \o <<group("Sticky Elements", f.stickyLayers),
                                   group("Fixed Elements", f.fixedLayers)>>)])

\* the listener gets back layer from the call of captureNode it made;
\* filter(Boolean) drops the calls that returned null
listenerResume(f, layer) ==
    CASE f.pc = "fixedRoots" ->
            [f EXCEPT !.next = @ + 1,
                      !.fixedLayers = IF layer # Null THEN Append(@, layer) ELSE @]
      [] f.pc = "stickyRoots" ->
            [f EXCEPT !.next = @ + 1,
                      !.stickyLayers = IF layer # Null THEN Append(@, layer) ELSE @]
      [] f.pc = "body" ->
            Merge(f, [pc |-> "respond",
                      otherGroup |-> IF layer # Null
                                     THEN <<[layer EXCEPT !.name = <<"Other Elements">>]>>
                                     ELSE <<>>])

\* one step of the activation on top of the call stack
frameStep(f) ==
    IF f.kind = "onMessage" THEN listenerStep(f)
    ELSE IF f.pc = "enter" THEN captureEnter(f)
    ELSE captureLoop(f)

frameResume(f, value) ==
    IF f.kind = "onMessage" THEN listenerResume(f, value)
    ELSE captureResume(f, value)

Top(s) == s[Len(s)]
Pop(s) == SubSeq(s, 1, Len(s) - 1)

\* the activations that stand in a try block: the listener, and captureNode
\* while it captures the body of the document of an inline frame
catches(f) == f.kind = "onMessage" \/ f.pc = "iframe"

\* the activation f at its catch clause: the listener goes on to respond with
\* the message of the error, captureNode drops the error and goes on after
\* the inline-frame block
caught(f, error) ==
    IF f.kind = "onMessage" THEN Merge(f, [pc |-> "catch", error |-> error])
    ELSE afterFrame(f, Null)

\* the call stack and the result after the activation above callers threw
\* error: the activations up to the nearest one in a try block are left, and
\* a call of captureNode no try block surrounds ends with the error
unwound(callers, error) ==
    LET catchers == {i \in 1..Len(callers) : catches(callers[i])}
        nearest == SetMax(catchers)
    IN  IF catchers = {} THEN [stack |-> <<>>, result |-> [thrown |-> error]]
        ELSE [stack |-> SubSeq(callers, 1, nearest - 1)
                            \o <<caught(callers[nearest], error)>>,
              result |-> Pending]

\* the call stack and the result after a step of the activation on top that
\* came to stepped: a call pushes the activation of the callee, a return pops
\* the activation and resumes its caller with the value; the value the
\* bottom activation returns is the result
stackAfter(s, stepped) ==
    IF ~stepped.returns
    THEN [stack |-> Pop(s) \o <<stepped.frame>> \o stepped.calls, result |-> Pending]
    ELSE IF stepped.throws THEN unwound(Pop(s), stepped.value)
    ELSE IF Len(s) = 1
    THEN [stack |-> <<>>, result |-> stepped.value]
    ELSE [stack |-> Pop(Pop(s)) \o <<frameResume(s[Len(s) - 1], stepped.value)>>,
          result |-> Pending]

Step(s) == stackAfter(s, frameStep(Top(s)))

\* the document whose nodes are those of the set nodes and whose body is the
\* node body
Document(nodes, body) ==
    [nodes |-> [id \in {n.id : n \in nodes} |-> CHOOSE n \in nodes : n.id = id],
     body |-> body, scrollX |-> 0, scrollY |-> 0,
     scrollWidth |-> 100, scrollHeight |-> 100]

-----------------------------------------------------------------------------
(* The actions of the extractor.                                           *)

\* captureNode(document.body, 0, skipNodes) is called with nothing to skip
CallCaptureNode ==
    /\ op = "idle"
    /\ stack' = <<Call(dom.body, 0, {}, 0, Origin, TopEnv(dom))>>
    /\ op' = "running"
    /\ UNCHANGED <<dom, out>>
    /\ UNCHANGED synthVars

\* a request of type CAPTURE reaches the listener
ReceiveCapture ==
    /\ op = "idle"
    /\ stack' = <<Listener>>
    /\ op' = "running"
    /\ UNCHANGED <<dom, out>>
    /\ UNCHANGED synthVars

\* the running operation goes on to its next call or return; nothing else
\* runs in the page meanwhile, the operation being synchronous
CaptureStep ==
    /\ stack # <<>>
    /\ LET stepped == Step(stack)
       IN  /\ stack' = stepped.stack
           /\ out' = stepped.result
           /\ op' = IF stepped.stack = <<>> THEN stack[1].kind ELSE op
    /\ UNCHANGED dom
    /\ UNCHANGED synthVars

(* Reading an IR tree.  The tree is read level by level, and the level k  *)
(* below a node is reached through the levels k \div 2 and k - k \div 2,   *)
(* so that reading a deep tree nests no deeper than the logarithm of its   *)
(* depth.                                                                  *)

RECURSIVE Flatten(_, _, _)
\* seqs[lo] \o ... \o seqs[hi]
Flatten(seqs, lo, hi) ==
    IF lo > hi THEN <<>>
    ELSE IF lo = hi THEN seqs[lo]
    ELSE Flatten(seqs, lo, (lo + hi) \div 2) \o Flatten(seqs, (lo + hi) \div 2 + 1, hi)

\* the children of the layers, in order
ChildrenOf(layers) ==
    Flatten([i \in 1..Len(layers) |->
                IF Has(layers[i], "children") THEN layers[i].children ELSE <<>>],
            1, Len(layers))

RECURSIVE Below(_, _)
\* the nodes k levels below the layers, in order
Below(layers, k) ==
    IF k = 0 \/ layers = <<>> THEN layers
    ELSE IF k = 1 THEN ChildrenOf(layers)
    ELSE Below(Below(layers, k \div 2), k - k \div 2)

MaxHeight == 64

\* the number of edges on the longest path from layer down to a leaf
Height(layer) ==
    CHOOSE k \in 0..MaxHeight :
        Below(<<layer>>, k) # <<>> /\ Below(<<layer>>, k + 1) = <<>>

\* the nodes of the IR tree below layer: for each its depth below layer, its
\* name, type and position
Nodes(layer) ==
    UNION {LET level == Below(<<layer>>, k)
           IN  {[depth |-> k, name |-> level[i].name, type |-> level[i].type,
                 x |-> level[i].x, y |-> level[i].y] : i \in 1..Len(level)} :
           k \in 0..Height(layer)}

\* the children captureNode makes up itself, without a call of captureNode
SyntheticNames == {<<"Rich Text">>, <<"Value">>, <<"Placeholder">>, <<"Color Value">>}

-----------------------------------------------------------------------------
(* Rich text: the inputs.  A container holds up to MaxRuns children, each  *)
(* a text node, a bold inline element around one text node, a line break   *)
(* or a hidden inline element.                                             *)

MaxRuns == 3

\* the texts of the text nodes
RunTexts == {<<>>, <<" ">>, <<"a">>, <<" ", "a">>, <<"a", " ">>, <<" ", " ", "a">>,
             <<"\n", "a", " ", " ">>}

\* the nodes of the child with identity id: the child and, for an inline
\* element, the text node in it
InlineChild(id, kind, text) ==
    CASE kind = "text" -> {TextNode(id, text)}
      [] kind = "bold" ->
            {[Element(id, "B", <<id + MaxRuns + 1>>)
                EXCEPT !.style.display = "inline", !.style.fontWeight = 700],
             TextNode(id + MaxRuns + 1, text)}
      [] kind = "br" -> {[Element(id, "BR", <<>>) EXCEPT !.style.display = "inline"]}
      [] kind = "hidden" ->
            {[Element(id, "SPAN", <<id + MaxRuns + 1>>) EXCEPT !.style.display = "none"],
             TextNode(id + MaxRuns + 1, text)}

InlineChoices ==
    {[kind |-> "text", text |-> t] : t \in RunTexts}
        \cup {[kind |-> "bold", text |-> t] : t \in {<<"b">>, <<" ">>, <<"b", " ">>}}
        \cup {[kind |-> "br", text |-> <<>>], [kind |-> "hidden", text |-> <<"h">>]}

\* the document whose body is the container, with the children chosen
RichContainer(tagName, whiteSpace, choices) ==
    Document({[Element(1, tagName, [i \in 1..Len(choices) |-> i + 1])
                  EXCEPT !.style.whiteSpace = whiteSpace]}
                \cup UNION {InlineChild(i + 1, choices[i].kind, choices[i].text) :
                                i \in 1..Len(choices)},
             1)

\* the container of '  Hello <b>World</b>  '
HelloWorld ==
    Document({Element(1, "P", <<2, 3, 4>>),
              TextNode(2, <<" ", " ", "H", "e", "l", "l", "o", " ">>),
              [Element(3, "B", <<5>>)
                  EXCEPT !.style.display = "inline", !.style.fontWeight = 700],
              TextNode(5, <<"W", "o", "r", "l", "d">>),
              TextNode(4, <<" ", " ">>)},
             1)

RichContainers ==
    {HelloWorld} \cup
    {RichContainer(tagName, whiteSpace, choices) :
        tagName \in {"P", "LI"}, whiteSpace \in {"normal", "pre"},
        choices \in UNION {[1..n -> InlineChoices] : n \in 0..MaxRuns}}

-----------------------------------------------------------------------------
(* Specification of the rich-text merger: the extractor meets a container  *)
(* and either merges its runs (getRichTextData, as captureNode calls it    *)
(* for a text container) or captures it (captureNode).                     *)

InitRichText ==
    /\ dom \in RichContainers
    /\ stack = <<>>
    /\ out = Pending
    /\ op = "idle"
    /\ SynthIdle

GetRichTextData ==
    /\ op = "idle"
    /\ isTextContainer(Node(dom.body))
    /\ out' = getRichTextData(Node(dom.body))
    /\ op' = "getRichTextData"
    /\ UNCHANGED <<dom, stack>>
    /\ UNCHANGED synthVars

NextRichText == GetRichTextData \/ CallCaptureNode \/ CaptureStep

SpecRichText == InitRichText /\ [][NextRichText]_vars


-----------------------------------------------------------------------------
(* Claims about the rich-text merger.                                      *)

\* the number of leading characters text.trim() removes from text
LeadingRemoved(text) == Len(text) - Len(DropWhile(text, JsWhiteSpace))

\* C1: when the container is not preformatted, getRichTextData shifts every
\* range's start and end left by exactly the number of leading characters the
\* final trim removed (trailing trimmed characters shift nothing), so that for
\* '  Hello <b>World</b>  ' the text is 'Hello World' and the bold run's range
\* covers exactly 'World'.
C1_ShiftByLeadingOnly ==
    (op = "getRichTextData" /\ Node(dom.body).style.whiteSpace \notin PreserveModes) =>
        LET walked == walk(Node(dom.body), Node(dom.body), EmptyRichText)
            lead == LeadingRemoved(walked.text)
        IN  /\ Len(out.ranges) = Len(walked.ranges)
            /\ \A i \in 1..Len(out.ranges) :
                  /\ out.ranges[i].start = Max(0, walked.ranges[i].start - lead)
                  /\ out.ranges[i].end = Max(0, walked.ranges[i].end - lead)
            /\ dom = HelloWorld =>
                  /\ out.text = <<"H", "e", "l", "l", "o", " ", "W", "o", "r", "l", "d">>
                  /\ SubSeq(out.text, out.ranges[2].start + 1, out.ranges[2].end)
                        = <<"W", "o", "r", "l", "d">>

\* the rich-text nodes of a captured layer: its children that carry styleRanges
RichTextNodes(layer) ==
    {layer.children[i] : i \in {j \in 1..Len(layer.children) :
                                    Has(layer.children[j], "styleRanges")}}

\* C2: in every rich-text node the extractor produces, every style range has
\* 0 <= start < end <= length(characters), and the ranges are ordered by start
\* and do not overlap.
C2_RangesWithinText ==
    (op = "captureNode" /\ out # Null) =>
        \A t \in RichTextNodes(out) :
            /\ \A i \in 1..Len(t.styleRanges) :
                  /\ 0 <= t.styleRanges[i].start
                  /\ t.styleRanges[i].start < t.styleRanges[i].end
                  /\ t.styleRanges[i].end <= Len(t.characters)
            /\ \A i \in 1..(Len(t.styleRanges) - 1) :
                  /\ t.styleRanges[i].start <= t.styleRanges[i + 1].start
                  /\ t.styleRanges[i].end <= t.styleRanges[i + 1].start


-----------------------------------------------------------------------------
(* Deep documents: a chain of nested elements below BODY.  The element at  *)
(* depth d (BODY is at depth 0) lies at page x = d, so that the x of an IR *)
(* node tells the depth of the source node it was captured from.           *)

MaxChainDepth == 53

NoFrame == 0 - 1

\* The chain of n levels below BODY.  The node at depth d has identity d + 1.
\* The node at depth n is a leaf of the given kind (a plain element, a text
\* node, a paragraph holding one text node, a text input with a value); the
\* element at depth frameAt, if any, is an inline frame whose nested document
\* has the node at depth frameAt + 1 for its body.
Chain(n, kind, frameAt) ==
    LET \* the viewport x of the node at depth d, in its own document
        left(d) == IF frameAt # NoFrame /\ d > frameAt THEN d - frameAt ELSE d
        at(d, node) == [node EXCEPT !.rect.left = left(d)]
        level(d) ==
            IF d = n + 1 THEN at(n, TextNode(d + 1, <<"t">>))
            ELSE IF d = n
            THEN CASE kind = "element" -> at(d, Element(d + 1, "DIV", <<>>))
                   [] kind = "text" -> at(d, TextNode(d + 1, <<"t">>))
                   [] kind = "paragraph" -> at(d, Element(d + 1, "P", <<d + 2>>))
                   [] kind = "input" ->
                        [at(d, Element(d + 1, "INPUT", <<>>)) EXCEPT !.value = <<"v">>]
            ELSE IF d = frameAt
            THEN [at(d, Element(d + 1, "IFRAME", <<>>)) EXCEPT
                    !.contentDocument = [body |-> d + 2, scrollX |-> 0, scrollY |-> 0]]
            ELSE at(d, Element(d + 1,
                               IF d = 0 \/ d = frameAt + 1 THEN "BODY" ELSE "DIV",
                               <<d + 2>>))
    IN  Document({level(d) : d \in 0..(IF kind = "paragraph" THEN n + 1 ELSE n)}, 1)

DeepDocuments ==
    UNION {{Chain(n, kind, frameAt) :
                kind \in {"element", "text", "paragraph", "input"},
                frameAt \in {NoFrame, 1, n - 2}} :
           n \in (DepthCeiling - 2)..MaxChainDepth}

InitDeep ==
    /\ dom \in DeepDocuments
    /\ stack = <<>>
    /\ out = Pending
    /\ op = "idle"
    /\ SynthIdle

NextDeep == CallCaptureNode \/ CaptureStep

SpecDeep == InitDeep /\ [][NextDeep]_vars


-----------------------------------------------------------------------------
(* Stacking order: the inputs.  BODY holds up to MaxSiblings children; the *)
(* child at position i lies at page x = i, so that the x of an IR child    *)
(* tells the position of its source node among its siblings.               *)

MaxSiblings == 3

SiblingKinds == {"text", "flow", "float", "auto", "zero", "negative", "one", "two",
                 "staticTwo", "math"}

Sibling(id, kind) ==
    LET positioned(position, zIndex) ==
            [Element(id, "DIV", <<>>) EXCEPT !.style.position = position,
                                             !.style.zIndex = zIndex]
    IN  CASE kind = "text" -> TextNode(id, <<"t">>)
          [] kind = "flow" -> Element(id, "DIV", <<>>)
          [] kind = "float" -> [Element(id, "DIV", <<>>) EXCEPT !.style.float = "left"]
          [] kind = "auto" -> positioned("relative", ZAuto)
          [] kind = "zero" -> positioned("relative", ZInt(0))
          [] kind = "negative" -> positioned("absolute", ZInt(0 - 1))
          [] kind = "one" -> positioned("relative", ZInt(1))
          [] kind = "two" -> positioned("absolute", ZInt(2))
          [] kind = "staticTwo" -> positioned("static", ZInt(2))
          [] kind = "math" ->
                [positioned("absolute", ZInt(2)) EXCEPT !.texSource = <<"m">>]

\* the document whose BODY holds the children of the kinds given, in order
Siblings(kinds) ==
    Document({Element(1, "BODY", [i \in 1..Len(kinds) |-> i + 1])}
                \cup {[Sibling(i + 1, kinds[i]) EXCEPT !.rect.left = i] :
                         i \in 1..Len(kinds)},
             1)

InitStacking ==
    /\ dom \in {Siblings(kinds) :
                   kinds \in UNION {[1..n -> SiblingKinds] : n \in 0..MaxSiblings}}
    /\ stack = <<>>
    /\ out = Pending
    /\ op = "idle"
    /\ SynthIdle

NextStacking == CallCaptureNode \/ CaptureStep

SpecStacking == InitStacking /\ [][NextStacking]_vars

-----------------------------------------------------------------------------
(* Wide documents: BODY holds about ChildCap children: elements, of which  *)
(* the first may be hidden, or an element followed by text nodes; the      *)
(* child at position i lies at page x = i; the child at position parentAt, *)
(* if any, is an element that holds an element itself.                     *)

MaxChildren == 502
MaxHidden == 1

Wide(n, kind, hidden, parentAt) ==
    Document({Element(1, "BODY", [i \in 1..n |-> i + 1]),
              [Element(n + 2, "DIV", <<>>) EXCEPT !.rect.left = parentAt]}
                \cup {[(IF kind = "text" /\ i > 1 /\ i # parentAt
                        THEN TextNode(i + 1, <<"t">>)
                        ELSE [Element(i + 1, "DIV",
                                      IF i = parentAt THEN <<n + 2>> ELSE <<>>)
                                EXCEPT !.style.display = IF i <= hidden THEN "none"
                                                         ELSE "block"])
                          EXCEPT !.rect.left = i] : i \in 1..n},
             1)

InitWide ==
    /\ dom \in {Wide(n, kind, hidden, parentAt) :
                   n \in (ChildCap - 1)..MaxChildren,
                   kind \in {"element", "text"},
                   hidden \in 0..MaxHidden,
                   parentAt \in {0, 2, ChildCap, ChildCap + 1}}
    /\ stack = <<>>
    /\ out = Pending
    /\ op = "idle"
    /\ SynthIdle

NextWide == CallCaptureNode \/ CaptureStep

SpecWide == InitWide /\ [][NextWide]_vars

-----------------------------------------------------------------------------
(* Hoisting: the inputs.  BODY (node 1) and MaxHoisted elements (nodes 2,  *)
(* 3, ...), each the child of an earlier node and statically, relatively,  *)
(* fixed or sticky positioned; the element e lies at page x = e.           *)

MaxHoisted == 3

Hoistable(parent, position) ==
    LET ids == 2..(MaxHoisted + 1)
    IN  Document({Element(1, "BODY", SetToSortedSeq({e \in ids : parent[e] = 1}))}
                    \cup {[Element(e, "DIV", SetToSortedSeq({c \in ids : parent[c] = e}))
                              EXCEPT !.rect.left = e,
                                     !.style.position = position[e]] : e \in ids},
                 1)

InitHoist ==
    /\ dom \in {Hoistable(parent, position) :
                   parent \in {p \in [2..(MaxHoisted + 1) -> 1..MaxHoisted] :
                                  \A e \in DOMAIN p : p[e] < e},
                   position \in [2..(MaxHoisted + 1) ->
                                    {"static", "relative", "fixed", "sticky"}]}
    /\ stack = <<>>
    /\ out = Pending
    /\ op = "idle"
    /\ SynthIdle

NextHoist == ReceiveCapture \/ CaptureStep

SpecHoist == InitHoist /\ [][NextHoist]_vars

-----------------------------------------------------------------------------
(* Claims about the depth ceiling.                                         *)

\* C8 (as stated): for a source tree deeper than the depth ceiling, the IR tree
\* captureNode returns has depth at most the ceiling.
C8_DepthAtMostCeiling ==
    (op = "captureNode" /\ out # Null) =>
        \A n \in Nodes(out) : n.depth <= DepthCeiling

\* C8 (amended): captureNode returns no node for a call whose depth exceeds the
\* ceiling, also below a nested document, so every IR node a call returned
\* lies at the depth of its call, at most the ceiling; the IR tree is at most
\* one level deeper than the ceiling, and at that level there are only the
\* children captureNode makes up for an element captured at the ceiling (its
\* rich text, its form-control value).
C8_DepthAtMostCeilingPlusOne ==
    (op = "captureNode" /\ out # Null) =>
        \A n \in Nodes(out) :
            /\ n.x <= DepthCeiling
            /\ n.depth <= DepthCeiling + 1
            /\ n.name \notin SyntheticNames => n.depth = n.x
            /\ n.depth = DepthCeiling + 1 => n.name \in SyntheticNames

\* a source tree deeper than the ceiling was captured, and the IR tree has a
\* node one level below the ceiling
C8_Witness ==
    /\ op = "captureNode"
    /\ out # Null
    /\ \E n \in Nodes(out) : n.depth = DepthCeiling + 1

-----------------------------------------------------------------------------
(* Claims about the stacking order.                                        *)

\* the paint-order weight of the IR child captured from a source node
paintWeight(node) ==
    IF node.nodeType = "TEXT_NODE" \/ node.texSource # <<>> THEN 5
    ELSE IF node.style.position # "static"
    THEN IF node.style.zIndex = ZAuto \/ node.style.zIndex.int = 0 THEN 6
         ELSE IF node.style.zIndex.int < 0 THEN 1
         ELSE 6 + node.style.zIndex.int
    ELSE IF node.style.float # "none" THEN 4
    ELSE 3

\* C4: after a frame's children are captured they are ordered ascending by
\* paint-order weight (TEXT 5; positioned: 1 for a negative z-index, 6 + z for
\* a positive one, 6 for auto or zero; floated and not positioned 4; any
\* other 3), and children of equal weight keep their document order (a text
\* container has its text for only child, and nothing to order).
C4_ChildrenInPaintOrder ==
    (op = "captureNode" /\ out # Null /\ ~isTextContainer(Node(dom.body))) =>
        LET body == Node(dom.body)
            \* the position among its siblings of the source of the k-th IR child
            source(k) == out.children[k].x
            weight(k) == paintWeight(Node(body.childNodes[source(k)]))
        IN  /\ Len(out.children) = Len(body.childNodes)
            /\ {source(k) : k \in 1..Len(out.children)} = 1..Len(body.childNodes)
            /\ \A j, k \in 1..Len(out.children) :
                  j < k => \/ weight(j) < weight(k)
                           \/ weight(j) = weight(k) /\ source(j) < source(k)

\* children were captured out of paint order, two of them of equal weight, and
\* the capture has moved one before another that precedes it in the document
C4_Witness ==
    /\ op = "captureNode"
    /\ out # Null
    /\ Len(out.children) = 3
    /\ \E j, k \in 1..3 : j < k /\ out.children[j].x > out.children[k].x
    /\ \E j, k \in 1..3 :
          /\ j < k
          /\ paintWeight(Node(Node(dom.body).childNodes[out.children[j].x]))
                = paintWeight(Node(Node(dom.body).childNodes[out.children[k].x]))

-----------------------------------------------------------------------------
(* Claims about the child cap.                                             *)

\* C9: every IR frame the extractor produces has at most cap (500) children,
\* whatever the number of children of the source element.
C9_AtMostCapChildren ==
    (op = "captureNode" /\ out # Null) =>
        \A k \in 0..Height(out) :
            LET level == Below(<<out>>, k)
            IN  \A i \in 1..Len(level) :
                    Has(level[i], "children") => Len(level[i].children) <= ChildCap

-----------------------------------------------------------------------------
(* Claims about hoisting.                                                  *)

\* the places (level, position in the level) of the IR tree below layer where
\* the node captured from the element at page x = e stands
Occurrences(layer, e) ==
    UNION {LET level == Below(<<layer>>, k)
           IN  {<<k, i>> : i \in {j \in 1..Len(level) : level[j].x = e}} :
           k \in 1..Height(layer)}

\* C10: in the IR one CAPTURE command returns every source element is captured
\* at most once: an element hoisted into the Fixed Elements or the Sticky
\* Elements group appears neither below Other Elements nor in the other
\* hoisted group, however fixed and sticky elements are nested.
C10_CapturedAtMostOnce ==
    op = "onMessage" =>
        \A e \in 2..(MaxHoisted + 1) : Cardinality(Occurrences(out.data, e)) <= 1

-----------------------------------------------------------------------------
(* Synthesizer: the characters of font style names.                        *)

UpperCase ==
    <<"A", "B", "C", "D", "E", "F", "G", "H", "I", "J", "K", "L", "M",
      "N", "O", "P", "Q", "R", "S", "T", "U", "V", "W", "X", "Y", "Z">>
LowerCase ==
    <<"a", "b", "c", "d", "e", "f", "g", "h", "i", "j", "k", "l", "m",
      "n", "o", "p", "q", "r", "s", "t", "u", "v", "w", "x", "y", "z">>

isUpper(c) == \E i \in DOMAIN UpperCase : UpperCase[i] = c
isLower(c) == \E i \in DOMAIN LowerCase : LowerCase[i] = c

\* String.prototype.toLowerCase
toLowerCase(s) ==
    [i \in 1..Len(s) |->
        IF isUpper(s[i]) THEN LowerCase[CHOOSE k \in DOMAIN UpperCase : UpperCase[k] = s[i]]
        ELSE s[i]]

\* String.prototype.includes
includes(s, sub) ==
    \E i \in 1..(Len(s) - Len(sub) + 1) : SubSeq(s, i, i + Len(sub) - 1) = sub

\* style.replace(/\s+/g, '')
removeWhitespace(style) == SelectSeq(style, LAMBDA c : c \notin JsWhiteSpace)

\* style.replace(/([a-z])([A-Z])/g, '$1 $2'): a space goes between a lower-case
\* letter and the upper-case letter that follows it (two matches never overlap,
\* a match ending in an upper-case letter and beginning with a lower-case one)
splitCamelCase(style) ==
    Flatten([i \in 1..Len(style) |->
                IF i < Len(style) /\ isLower(style[i]) /\ isUpper(style[i + 1])
                THEN <<style[i], " ">>
                ELSE <<style[i]>>],
            1, Len(style))

\* the sequence as it is, duplicates kept
withDuplicates(seq) == seq

\* [...new Set(seq)]: the elements in the order of their first occurrence
unique(seq) ==
    LET firsts == {i \in 1..Len(seq) : \A j \in 1..(i - 1) : seq[j] # seq[i]}
    IN  [k \in 1..Cardinality(firsts) |->
            seq[CHOOSE i \in firsts : Cardinality({j \in firsts : j < i}) = k - 1]]

Regular == <<"R", "e", "g", "u", "l", "a", "r">>
Bold == <<"B", "o", "l", "d">>
SemiBold == <<"S", "e", "m", "i", " ", "B", "o", "l", "d">>
Medium == <<"M", "e", "d", "i", "u", "m">>
Light == <<"L", "i", "g", "h", "t">>
ExtraBold == <<"E", "x", "t", "r", "a", " ", "B", "o", "l", "d">>
Black == <<"B", "l", "a", "c", "k">>
Italic == <<"I", "t", "a", "l", "i", "c">>

InterRegular == [family |-> "Inter", style |-> Regular]

-----------------------------------------------------------------------------
(* Synthesizer: the native document.  figma.scene holds the native nodes   *)
(* in the order of their creation, and a node is known by its place in     *)
(* that order; NoLayer stands for null (no parent).  Sizes of native nodes *)
(* are in hundredths of a pixel, the least size resize is given being 0.01.*)

NoLayer == 0

NativeNode(type) ==
    [type |-> type, name |-> <<>>, x |-> 0, y |-> 0, width |-> 10000, height |-> 10000,
     parent |-> NoLayer, children |-> <<>>,
     layoutMode |-> "NONE", itemSpacing |-> 0,
     primaryAxisAlignItems |-> "MIN", counterAxisAlignItems |-> "MIN",
     padding |-> <<0, 0, 0, 0>>,
     fills |-> <<>>, strokes |-> <<>>, strokeWeight |-> <<1, 1, 1, 1>>,
     opacity |-> 1, clipsContent |-> TRUE,
     fontName |-> InterRegular, characters |-> <<>>, rangeFontNames |-> <<>>,
     rangeCalls |-> <<>>,
     textAutoResize |-> "WIDTH_AND_HEIGHT", fontSize |-> 12,
     arcData |-> Null]

\* the native nodes that have the method appendChild: frames, among them the
\* frame createNodeFromSvg returns, and no text, rectangle or ellipse
hasAppendChild(layer) == layer.type = "FRAME"

\* parent.insertChild(0, child)
insertFirst(scene, parent, child) ==
    [scene EXCEPT ![parent].children = <<child>> \o @, ![child].parent = parent]

\* parent.appendChild(child)
appendChild(scene, parent, child) ==
    [scene EXCEPT ![parent].children = Append(@, child), ![child].parent = parent]

-----------------------------------------------------------------------------
(* Synthesizer: the plugin's call stack.  An activation that awaits a call *)
(* stays below the activation it awaits and finds what that returned in    *)
(* its field awaited.                                                      *)

\* the activation on top goes on as frame
Replace(fig, frame) ==
    [fig EXCEPT !.calls = Append(SubSeq(@, 1, Len(@) - 1), frame)]

\* the activation on top, now frame, awaits call
Await(fig, frame, call) ==
    [fig EXCEPT !.calls = SubSeq(@, 1, Len(@) - 1) \o <<frame, call>>]

\* the activation on top returns value to the one that awaits it
ReturnTo(fig, value) ==
    LET rest == SubSeq(fig.calls, 1, Len(fig.calls) - 1)
    IN  IF rest = <<>>
        THEN [fig EXCEPT !.calls = <<>>, !.result = value, !.phase = "done"]
        ELSE [fig EXCEPT !.calls = Append(SubSeq(rest, 1, Len(rest) - 1),
                                          [rest[Len(rest)] EXCEPT !.awaited = value])]

\* the activation on top raises error, and what was created is taken back
rolledBack(fig, error) ==
    [fig EXCEPT !.calls = <<>>, !.result = Null, !.phase = "done", !.scene = <<>>,
                !.notice = Append(@, [error |-> TRUE, message |-> error])]

\* the activation on top raises error and nobody is told
unnoticed(fig, error) ==
    [fig EXCEPT !.calls = <<>>, !.result = Null, !.phase = "done"]

\* the activation on top raises error: no activation between it and the
\* message handler catches, and the handler's catch block notifies the user
Raise(fig, error) ==
    IF fig.calls[1].kind = "onmessage"
    THEN [fig EXCEPT !.calls = <<>>, !.result = Null, !.phase = "done",
                     !.notice = Append(@, [error |-> TRUE, message |-> error])]
    ELSE [fig EXCEPT !.calls = <<>>, !.result = [raised |-> error], !.phase = "done"]

-----------------------------------------------------------------------------------------------------------------------------------------------------
(* Synthesizer: the names of font weights and styles.                      *)

\* the weights map of createLayer
weights ==
    [light |-> Light, regular |-> Regular, medium |-> Medium, semibold |-> SemiBold,
     bold |-> Bold, extrabold |-> ExtraBold, black |-> Black]

\* toLowerCase for the names of font weights, which are atoms
lowerCaseWeights ==
    [Light |-> "light", Regular |-> "regular", Medium |-> "medium",
     Bold |-> "bold", Black |-> "black"]

-----
(* Synthesizer: safeLoadFont.                                              *)

\* the variations of a style, in the order they are tried
variations(style) ==
    unique(<<style, removeWhitespace(style), splitCamelCase(style)>>
           \o (IF \/ includes(toLowerCase(style), <<"b", "o", "l", "d">>)
                  \/ includes(toLowerCase(style), <<"s", "e", "m", "i">>)
               THEN <<Bold, SemiBold, Medium>>
               ELSE <<>>)
           \o <<Regular>>)

\* the styles createLayer asks for: a name of the weights map, Italic, or a
\* name of the weights map followed by Italic
LayerStyles ==
    LET names == {weights[w] : w \in DOMAIN weights}
    IN  names \cup {Italic} \cup {name \o <<" ">> \o Italic : name \in names \ {Regular}}

\* two styles createLayer does not ask for: SemiBold, and Demi BoldItalic,
\* whose seven variations are all different
OtherStyles ==
    {<<"S", "e", "m", "i", "B", "o", "l", "d">>,
     <<"D", "e", "m", "i", " ", "B", "o", "l", "d", "I", "t", "a", "l", "i", "c">>}

\* the variations of every style the model asks for, computed once
variationsOf == [style \in LayerStyles \cup OtherStyles |-> variations(style)]

FontCall(fontName) ==
    [kind |-> "safeLoadFont", pc |-> "variations", awaited |-> Null,
     family |-> fontName.family, style |-> fontName.style, next |-> 1]

\* the last catch block: loading Inter Regular too was rejected, and a text
\* node is created for the sake of its font name
uncaughtInter(fig) == Raise(fig, "font")
caughtInter(fig) ==
    ReturnTo([fig EXCEPT !.scene = Append(@, NativeNode("TEXT"))],
             NativeNode("TEXT").fontName)

\* one await of safeLoadFont: figma.loadFontAsync is asked for a font, and
\* fulfils if the font is among fonts and rejects if not
fontStep(fig, f, fonts) ==
    IF f.pc = "variations" THEN
        LET vs == variationsOf[f.style]
            font == [family |-> f.family, style |-> vs[f.next]]
            asked == [fig EXCEPT !.loads = Append(@, font)]
        IN  IF font \in fonts THEN ReturnTo(asked, font)
            ELSE IF f.next < Len(vs) THEN Replace(asked, [f EXCEPT !.next = @ + 1])
            ELSE Replace(asked, [f EXCEPT !.pc = "Inter"])
    ELSE
        LET asked == [fig EXCEPT !.loads = Append(@, InterRegular)]
        IN  IF InterRegular \in fonts THEN ReturnTo(asked, InterRegular)
            ELSE caughtInter(asked)

-----------------------------------------------------------------------------
(* Synthesizer: createLayer.                                               *)

\* the style name createLayer asks for, given fontWeight and fontStyle of a
\* TEXT node or of one of its style ranges
styleName(of) ==
    LET fontWeight == GetOr(of, "fontWeight", "regular")
        weightStr == IF fontWeight \in DOMAIN lowerCaseWeights
                     THEN lowerCaseWeights[fontWeight] ELSE fontWeight
        name == IF weightStr \in DOMAIN weights THEN weights[weightStr] ELSE Regular
    IN  IF GetOr(of, "fontStyle", "normal") = "italic"
        THEN IF name = Regular THEN Italic ELSE name \o <<" ">> \o Italic
        ELSE name

\* the font createLayer loads for a TEXT node or for one of its style ranges
fontToLoad(of) == [family |-> GetOr(of, "fontFamily", "Inter"), style |-> styleName(of)]

LayerCall(data, parent, parentGlobalX, parentGlobalY) ==
    [kind |-> "createLayer", pc |-> "enter", awaited |-> Null,
     data |-> data, parent |-> parent,
     parentGlobalX |-> parentGlobalX, parentGlobalY |-> parentGlobalY,
     layer |-> NoLayer, next |-> 1, actualFontNames |-> <<>>]

\* figma.createText(), figma.createFrame(), ...: the new node is the last of
\* the scene
created(scene, layer) == Append(scene, layer)

\* figma.createText() and what follows it up to the style ranges
textLayer(data, loadedFont) ==
    [NativeNode("TEXT") EXCEPT
        !.fontName = loadedFont,
        !.textAutoResize = IF GetOr(data, "textAlignVertical", "TOP") # "TOP"
                           THEN "NONE" ELSE "WIDTH_AND_HEIGHT",
        !.characters = GetOr(data, "characters", <<>>)]

\* normalizeLink
normalizeLink(link) ==
    IF link = Null THEN Null
    ELSE IF GetOr(link, "type", "") = "URL" /\ GetOr(link, "value", "") # "" THEN link
    ELSE IF GetOr(link, "url", "") # "" THEN [type |-> "URL", value |-> link.url]
    ELSE Null

\* layer.setRange...(start, end, value)
RangeCall(method, start, end, value) ==
    [method |-> method, start |-> start, end |-> end, value |-> value]

\* the end of a range is left as it is
unclampedEnd(end, length) == end

\* Math.min(range.end, layer.characters.length)
clampedEnd(end, length) == Min(end, length)

\* one pass of the Apply ranges loop: the range-level calls for range, whose
\* font was resolved as actualFontName, on a text of length characters
applyRange(range, actualFontName, length) ==
    LET start == range.start
        end == clampedEnd(range.end, length)
        number(field) == Has(range, field) /\ range[field] # 0
        string(field) == Has(range, field) /\ range[field] # ""
        pixels(field) == [value |-> range[field], unit |-> "PIXELS"]
        normalized == normalizeLink(GetOr(range, "link", Null))
    IN  IF start >= end THEN <<>>
        ELSE (IF number("fontSize")
              THEN <<RangeCall("setRangeFontSize", start, end, [fontSize |-> range.fontSize])>>
              ELSE <<>>)
          \o (IF actualFontName # Null
              THEN <<RangeCall("setRangeFontName", start, end, actualFontName)>>
              ELSE <<>>)
          \o (IF Has(range, "fill")
              THEN <<RangeCall("setRangeFills", start, end, [fills |-> <<range.fill>>])>>
              ELSE <<>>)
          \o (IF string("textCase")
              THEN <<RangeCall("setRangeTextCase", start, end, [textCase |-> range.textCase])>>
              ELSE <<>>)
          \o (IF string("textDecoration")
              THEN <<RangeCall("setRangeTextDecoration", start, end,
                               [textDecoration |-> range.textDecoration])>>
              ELSE <<>>)
          \o (IF number("lineHeight")
              THEN <<RangeCall("setRangeLineHeight", start, end, pixels("lineHeight"))>>
              ELSE <<>>)
          \o (IF number("letterSpacing")
              THEN <<RangeCall("setRangeLetterSpacing", start, end, pixels("letterSpacing"))>>
              ELSE <<>>)
          \o (IF normalized # Null
              THEN <<RangeCall("setRangeHyperlink", start, end, normalized)>>
              ELSE <<>>)
          \o (IF Has(range, "listOptions")
              THEN <<RangeCall("setRangeListOptions", start, end, range.listOptions)>>
              ELSE <<>>)

\* the passes of the loop in the order last to first
applyRangesBackwards(styleRanges, actualFontNames, length) ==
    LET n == Len(styleRanges)
    IN  Flatten([i \in 1..n |-> applyRange(styleRanges[n + 1 - i],
                                           actualFontNames[n + 1 - i], length)], 1, n)

\* the passes of the Apply ranges loop, one for each range in the order of
\* data.styleRanges
applyRanges(styleRanges, actualFontNames, length) ==
    Flatten([i \in 1..Len(styleRanges) |->
                applyRange(styleRanges[i], actualFontNames[i], length)],
            1, Len(styleRanges))

\* the Apply ranges loop: the ranges that are not empty once their end is cut
\* to the length of the characters get their font and their other properties
rangedText(layer, styleRanges, actualFontNames) ==
    LET applied == [i \in 1..Len(styleRanges) |->
                       [start |-> styleRanges[i].start,
                        end |-> Min(styleRanges[i].end, Len(layer.characters)),
                        fontName |-> actualFontNames[i]]]
    IN  [layer EXCEPT
            !.rangeFontNames = SelectSeq(applied, LAMBDA r : r.start < r.end),
            !.rangeCalls = applyRanges(styleRanges, actualFontNames,
                                       Len(layer.characters))]

\* the else branch of the style ranges
plainText(layer, data) ==
    LET normalized == normalizeLink(GetOr(data, "link", Null))
    IN  [layer EXCEPT
            !.fontSize = GetOr(data, "fontSize", @),
            !.rangeCalls = IF normalized # Null
                           THEN <<RangeCall("setRangeHyperlink", 0, Len(layer.characters),
                                            normalized)>>
                           ELSE <<>>]

\* the layer of a node that is not TEXT
shapeLayer(data) ==
    IF data.type = "SVG" THEN
        \* createNodeFromSvg returns a frame, and raises without SVG content
        IF Has(data, "svgContent") THEN NativeNode("FRAME")
        ELSE [NativeNode("FRAME") EXCEPT !.name = <<"SVG (Failed to import)">>]
    ELSE IF data.type = "IMAGE" THEN
        [NativeNode("RECTANGLE") EXCEPT
            !.name = <<"Image: ">> \o GetOr(data, "name", <<"IMG">>)]
    ELSE IF data.type = "RECTANGLE" THEN NativeNode("RECTANGLE")
    ELSE [NativeNode("FRAME") EXCEPT !.clipsContent = GetOr(data, "clipsContent", @)]

\* Auto Layout Support (Flexbox & Tables)
autoLayout(layer, data) ==
    LET display == GetOr(data, "display", "undefined")
        isFlex == display = "flex" \/ display = "inline-flex"
        isTable == GetOr(data, "isTable", FALSE)
        isTableGroup == GetOr(data, "isTableGroup", FALSE)
        isTableRow == GetOr(data, "isTableRow", FALSE)
        column == GetOr(data, "flexDirection", "undefined") = "column"
        children == GetOr(data, "children", <<>>)
        gap == IF column THEN GetOr(data, "rowGap", 0) ELSE GetOr(data, "columnGap", 0)
        spacing == IF gap = 0 /\ Len(children) > 1
                   THEN Max(GetOr(children[2],
                                  IF column THEN "marginTop" ELSE "marginLeft", 0), 0)
                   ELSE gap
        content == GetOr(data, "justifyContent", "undefined")
        items == GetOr(data, "alignItems", "undefined")
    IN  IF data.type = "FRAME" /\ (isFlex \/ isTable \/ isTableGroup \/ isTableRow)
        THEN [layer EXCEPT
                !.layoutMode = IF isTable \/ isTableGroup THEN "VERTICAL"
                               ELSE IF isTableRow THEN "HORIZONTAL"
                               ELSE IF column THEN "VERTICAL" ELSE "HORIZONTAL",
                !.itemSpacing = IF isTable \/ isTableGroup THEN GetOr(data, "tableRowGap", 0)
                                ELSE IF isTableRow THEN GetOr(data, "tableColGap", 0)
                                ELSE spacing,
                !.primaryAxisAlignItems =
                    IF ~isFlex THEN @
                    ELSE IF content = "center" THEN "CENTER"
                    ELSE IF content \in {"flex-end", "end"} THEN "MAX"
                    ELSE IF content = "space-between" THEN "SPACE_BETWEEN"
                    ELSE @,
                !.counterAxisAlignItems =
                    IF ~isFlex THEN @
                    ELSE IF items = "center" THEN "CENTER"
                    ELSE IF items \in {"flex-end", "end"} THEN "MAX"
                    ELSE @,
                !.padding = <<GetOr(data, "paddingTop", 0), GetOr(data, "paddingRight", 0),
                              GetOr(data, "paddingBottom", 0), GetOr(data, "paddingLeft", 0)>>]
        ELSE layer

\* Sizing and Positioning, opacity and Fills
placed(layer, data, parentGlobalX, parentGlobalY) ==
    LET fills == GetOr(data, "fills", <<>>)
        paints == [i \in 1..Len(fills) |->
                      IF fills[i].type = "SOLID"
                      THEN [type |-> "SOLID", color |-> fills[i].color,
                            opacity |-> GetOr(fills[i], "opacity", 1)]
                      ELSE IF fills[i].type = "GRADIENT_LINEAR"
                      THEN [type |-> "GRADIENT_LINEAR",
                            gradientStops |-> fills[i].gradientStops,
                            gradientTransform |->
                                GetOr(fills[i], "gradientTransform",
                                      <<<<1, 0, 0>>, <<0, 1, 0>>>>)]
                      ELSE Null]
    IN  [layer EXCEPT
            !.width = Max(100 * data.width, 1),
            !.height = Max(100 * data.height, 1),
            !.x = data.x - parentGlobalX,
            !.y = data.y - parentGlobalY,
            !.opacity = GetOr(data, "opacity", @),
            !.fills = IF Len(fills) > 0 THEN SelectSeq(paints, LAMBDA paint : paint # Null)
                      ELSE IF data.type = "FRAME" THEN <<>>
                      ELSE @]

\* the sectors of a circle with unequal borders, in the order of their arcs
sectors(data) ==
    <<[w |-> GetOr(data, "strokeTopWeight", 0), start |-> 0 - 135, end |-> 0 - 45,
       name |-> <<"Border Top">>],
      [w |-> GetOr(data, "strokeRightWeight", 0), start |-> 0 - 45, end |-> 45,
       name |-> <<"Border Right">>],
      [w |-> GetOr(data, "strokeBottomWeight", 0), start |-> 45, end |-> 135,
       name |-> <<"Border Bottom">>],
      [w |-> GetOr(data, "strokeLeftWeight", 0), start |-> 135, end |-> 225,
       name |-> <<"Border Left">>]>>

\* no element is taken for a circle with unequal borders
neverDonut(data) == FALSE

\* Detect Circle with Unequal Borders
isDonut(data) ==
    LET isCircle ==
            /\ data.type \in {"FRAME", "ELLIPSE"}
            /\ Abs(data.width - data.height) < 2
            /\ \/ Has(data, "cornerRadius") /\ 2 * data.cornerRadius >= data.width - 4
               \/ Has(data, "topLeftRadius") /\ 2 * data.topLeftRadius >= data.width - 4
        weight == [i \in 1..4 |-> sectors(data)[i].w]
    IN  isCircle /\ \E i \in 2..4 : weight[i] # weight[1]

\* the arc createLayer draws for a sector s of the circle of data
arc(data, s, parent) ==
    [NativeNode("ELLIPSE") EXCEPT
        !.name = s.name,
        !.width = 100 * data.width, !.height = 100 * data.height,
        !.fills = <<[type |-> "SOLID", color |-> data.strokes[1].color,
                     opacity |-> GetOr(data.strokes[1], "opacity", 1)]>>,
        !.arcData = [startingAngle |-> s.start, endingAngle |-> s.end,
                     \* (radius - s.w) / radius, as numerator and denominator
                     innerRadius |-> <<Max(0, data.width - 2 * s.w), data.width>>],
        !.parent = parent]

\* Strokes: the scene once the strokes of layer id are set; the arcs of a
\* circle with unequal borders are created and appended to the layer
stroked(scene, id, data) ==
    LET strokes == GetOr(data, "strokes", <<>>)
        drawn == SelectSeq(sectors(data), LAMBDA s : s.w > 0)
        sides == [i \in 1..4 |-> sectors(data)[i].w]
        uniform == LET w == GetOr(data, "strokeWeight", 1) IN <<w, w, w, w>>
    IN  IF Len(strokes) > 0 /\ isDonut(data) THEN
            [scene EXCEPT ![id].strokes = <<>>,
                          ![id].children = [k \in 1..Len(drawn) |-> Len(scene) + k]]
            \o [k \in 1..Len(drawn) |-> arc(data, drawn[k], id)]
        ELSE IF Len(strokes) > 0 THEN
            [scene EXCEPT
                ![id].strokes = [i \in 1..Len(strokes) |->
                                    [type |-> strokes[i].type, color |-> strokes[i].color,
                                     opacity |-> GetOr(strokes[i], "opacity", 1)]],
                ![id].strokeWeight = IF Has(data, "strokeTopWeight")
                                        /\ \E i \in 1..4 : sides[i] > 0
                                     THEN sides ELSE uniform]
        ELSE [scene EXCEPT ![id].strokeWeight = uniform]

\* lines 189-385 of createLayer: the layer id, just created, is named, laid
\* out, sized, placed, painted and appended to its parent
builtLayer(scene, id, f) ==
    LET named == [scene[id] EXCEPT !.name = GetOr(f.data, "name", <<"Layer">>)]
        dressed == placed(autoLayout(named, f.data), f.data,
                          f.parentGlobalX, f.parentGlobalY)
        withStrokes == stroked([scene EXCEPT ![id] = dressed], id, f.data)
    IN  IF f.parent # NoLayer /\ hasAppendChild(scene[f.parent])
        THEN appendChild(withStrokes, f.parent, id)
        ELSE withStrokes

\* createLayer from layer.name = ... on, fig.scene holding the native node id
\* created for the node of f: the activation goes on as frame, or
\* parent.appendChild(layer) raises for a parent that is no container
finishLayer(fig, id, f, frame) ==
    LET built == [fig EXCEPT !.scene = builtLayer(@, id, f)]
    IN  IF f.parent # NoLayer /\ ~hasAppendChild(fig.scene[f.parent])
        THEN Raise(built, "parent.appendChild is not a function")
        ELSE Replace(built, frame)

\* what the Children loop passes for the global position of the parent, layer
\* being the native node of the parent
nativePosition(data, layer) == <<layer.x, layer.y>>
passedOrigin(data, layer) == <<data.x, data.y>>

\* the call of createLayer for the i-th child of the node of f
childLayerCall(f, i, layer) ==
    LET origin == passedOrigin(f.data, layer)
    IN  LayerCall(f.data.children[i], f.layer, origin[1], origin[2])

\* createLayer from one await to the next
layerStep(fig, f) ==
    LET data == f.data
        styleRanges == GetOr(data, "styleRanges", <<>>)
        children == GetOr(data, "children", <<>>)
        id == Len(fig.scene) + 1
    IN  IF f.pc = "enter" THEN
            IF data.type = "TEXT"
            THEN Await(fig, [f EXCEPT !.pc = "loadedFont"], FontCall(fontToLoad(data)))
            ELSE finishLayer([fig EXCEPT !.scene = created(@, shapeLayer(data))], id, f,
                          [f EXCEPT !.pc = "children", !.layer = id])
        ELSE IF f.pc = "loadedFont" THEN
            IF Len(styleRanges) > 0
            THEN Await([fig EXCEPT !.scene = created(@, textLayer(data, f.awaited))],
                       [f EXCEPT !.pc = "range", !.layer = id],
                       FontCall(fontToLoad(styleRanges[1])))
            ELSE finishLayer([fig EXCEPT !.scene =
                              created(@, plainText(textLayer(data, f.awaited), data))],
                          id, f, [f EXCEPT !.pc = "children", !.layer = id])
        ELSE IF f.pc = "range" THEN
            LET loaded == Append(f.actualFontNames, f.awaited)
            IN  IF f.next < Len(styleRanges)
                THEN Await(fig, [f EXCEPT !.next = @ + 1, !.actualFontNames = loaded],
                           FontCall(fontToLoad(styleRanges[f.next + 1])))
                ELSE finishLayer([fig EXCEPT !.scene[f.layer] =
                                  rangedText(@, styleRanges, loaded)],
                              f.layer, f,
                              [f EXCEPT !.pc = "children", !.next = 1,
                                        !.actualFontNames = loaded])
        ELSE IF f.next <= Len(children)
            THEN Await(fig, [f EXCEPT !.next = @ + 1],
                       childLayerCall(f, f.next, fig.scene[f.layer]))
        ELSE ReturnTo(fig, f.layer)

-----------------------------------------------------------------------------
(* Synthesizer: the handler of the messages of the plugin's UI, for a      *)
(* message of type IMPORT whose data is data.                              *)

MessageCall == [kind |-> "onmessage", pc |-> "enter", awaited |-> Null]

messageStep(fig, f, data) ==
    IF f.pc = "enter" THEN
        IF data = Null
        THEN Raise(fig, "Invalid or empty data received.")
        ELSE Await(fig, [f EXCEPT !.pc = "rootLayer"], LayerCall(data, NoLayer, 0, 0))
    ELSE IF f.pc = "rootLayer" THEN
        \* figma.viewport.scrollAndZoomIntoView([rootLayer])
        Replace([fig EXCEPT !.viewport = <<f.awaited>>], [f EXCEPT !.pc = "notify"])
    ELSE ReturnTo([fig EXCEPT !.notice =
                      Append(@, [error |-> FALSE, message |-> "Imported successfully!"])],
                  Null)

\* the activation on top of the plugin's call stack goes on to its next await
\* or to its return
figmaStep(fig, data, fonts) ==
    LET f == fig.calls[Len(fig.calls)]
    IN  IF f.kind = "safeLoadFont" THEN fontStep(fig, f, fonts)
        ELSE IF f.kind = "createLayer" THEN layerStep(fig, f)
        ELSE messageStep(fig, f, data)

-----------------------------------------------------------------------------
(* The actions of the synthesizer.                                         *)

\* safeLoadFont is called for a font
CallSafeLoadFont(fontName) ==
    /\ figma.phase = "idle"
    /\ figma' = [figma EXCEPT !.calls = <<FontCall(fontName)>>, !.phase = "running"]
    /\ UNCHANGED <<ir, catalog>>
    /\ UNCHANGED extractVars

\* the plugin's UI posts the message of type IMPORT with the data ir
ReceiveImport ==
    /\ figma.phase = "idle"
    /\ figma' = [figma EXCEPT !.calls = <<MessageCall>>, !.phase = "running"]
    /\ UNCHANGED <<ir, catalog>>
    /\ UNCHANGED extractVars

\* the plugin runs up to its next await: the load the running activation of
\* safeLoadFont awaits settles, or the activation on top goes on
FigmaStep ==
    /\ figma.calls # <<>>
    /\ figma' = figmaStep(figma, ir, catalog)
    /\ UNCHANGED <<ir, catalog>>
    /\ UNCHANGED extractVars

\* An activation of safeLoadFont on top of a call stack stands at its await of
\* figma.loadFontAsync, which it calls as soon as it is called and as soon as
\* a load is rejected: the load is pending, and the handler whose call stack
\* it is has given the control back to the plugin's event loop.
pendingLoad(calls) == calls # <<>> /\ calls[Len(calls)].kind = "safeLoadFont"

\* how many IMPORT messages the UI posts at most
MaxImports == 2

\* the messages of type IMPORT posted so far: those whose handlers are in
\* flight (the one whose call stack is figma.calls and the suspended ones)
\* and those whose handlers have ended, each with its notification
Posted ==
    Len(figma.suspended) + (IF figma.calls # <<>> THEN 1 ELSE 0) + Len(figma.notice)

\* the plugin's UI posts another message of type IMPORT, with the same data,
\* while the handler of an earlier one is suspended at a font load: the
\* handler is called for it at once (nothing in the plugin holds it back),
\* and the earlier handler stays suspended
ReceiveImportSuspended ==
    /\ pendingLoad(figma.calls)
    /\ Posted < MaxImports
    /\ figma' = [figma EXCEPT !.suspended = Append(@, figma.calls),
                              !.calls = <<MessageCall>>]
    /\ UNCHANGED <<ir, catalog>>
    /\ UNCHANGED extractVars

\* the load a suspended handler awaits settles while the running handler is
\* itself suspended at a load, or has ended: the k-th suspended handler is the
\* one FigmaStep takes further
ResumeImport ==
    /\ figma.calls = <<>> \/ pendingLoad(figma.calls)
    /\ \E k \in 1..Len(figma.suspended) :
          figma' = [figma EXCEPT
                      !.calls = figma.suspended[k],
                      !.phase = "running",
                      !.suspended =
                          SubSeq(@, 1, k - 1) \o SubSeq(@, k + 1, Len(@))
                              \o (IF figma.calls # <<>> THEN <<figma.calls>> ELSE <<>>)]
    /\ UNCHANGED <<ir, catalog>>
    /\ UNCHANGED extractVars

\* the extractor takes no part in a run of the synthesizer alone
ExtractorIdle ==
    /\ dom = Document({Element(1, "BODY", <<>>)}, 1)
    /\ stack = <<>>
    /\ out = Pending
    /\ op = "idle"

-----------------------------------------------------------------------------
(* Specification of the font fallback: safeLoadFont is called for a font   *)
(* of one of two families, in a style createLayer asks for or another,     *)
(* with a catalog of at most MaxCatalog loadable fonts.                    *)

MaxCatalog == 2

Families == {"Inter", "Roboto"}

\* the styles asked for
Styles == {Regular, Bold, SemiBold, Bold \o <<" ">> \o Italic} \cup OtherStyles

\* the fonts a catalog may hold
Loadable ==
    {[family |-> family, style |-> style] :
        family \in Families,
        style \in {Regular, Bold, SemiBold, Medium, Bold \o <<" ">> \o Italic,
                   <<"S", "e", "m", "i", "B", "o", "l", "d">>}}

Catalogs == {fonts \in SUBSET Loadable : Cardinality(fonts) <= MaxCatalog}

InitFont ==
    /\ ExtractorIdle
    /\ ir = Null
    /\ catalog \in Catalogs
    /\ figma = FigmaIdle

NextFont ==
    \/ \E family \in Families, style \in Styles :
          CallSafeLoadFont([family |-> family, style |-> style])
    \/ FigmaStep

SpecFont == InitFont /\ [][NextFont]_vars

\* the call is made, and the event loop runs what is ready to run
FairSpecFont ==
    /\ SpecFont
    /\ WF_vars(\E family \in Families, style \in Styles :
                  CallSafeLoadFont([family |-> family, style |-> style]))
    /\ WF_vars(FigmaStep)

-----------------------------------------------------------------------------
(* Claims about the font fallback.                                         *)

\* the most load attempts one call of safeLoadFont makes: one for each of the
\* seven variations, and one for Inter Regular
MaxAttempts ==
    Cardinality({"style", "unspaced", "spaced", "Bold", "Semi Bold", "Medium", "Regular"})
        + 1

\* value is a font reference
isFontName(value) == DOMAIN value = {"family", "style"}

\* C7: safeLoadFont never raises to its caller, and returns a font reference
\* after at most eight load attempts, for every requested family and style
\* and every font catalog, also one where only Inter Regular is loadable and
\* one where every load fails.
C7_AlwaysReturnsFont ==
    /\ [](Len(figma.loads) <= MaxAttempts)
    /\ [](figma.phase = "done" => isFontName(figma.result))
    /\ <>(figma.phase = "done")

\* every load has failed, eight of them, and safeLoadFont has returned a font
C7_Witness ==
    /\ figma.phase = "done"
    /\ catalog = {}
    /\ Len(figma.loads) = MaxAttempts
    /\ isFontName(figma.result)

-----------------------------------------------------------------------------
(* Import: the inputs.  An IR tree of up to MaxLayers nodes as the          *)
(* extractor shapes them: the root is a frame, every node but the root is  *)
(* the child of an earlier node that is a frame, and a node is a frame, a  *)
(* circle with unequal borders, a text or a text with style ranges.  The   *)
(* nodes have different names and lie at different positions, the root at  *)
(* (100, 50) and the second node at (120, 70).                             *)

MaxLayers == 4

LayerNames == <<"a", "b", "c", "d", "e", "f", "g", "h">>

LayerKinds == {"frame", "donut", "text", "rich"}

\* the fields of the node e that its kind decides
KindFields(kind) ==
    CASE kind = "frame" -> [type |-> "FRAME", fills |-> <<>>]
      [] kind = "donut" ->
            [type |-> "FRAME", fills |-> <<>>, width |-> 20, height |-> 20,
             cornerRadius |-> 10,
             strokes |-> <<[type |-> "SOLID", color |-> "red", opacity |-> 1]>>,
             strokeTopWeight |-> 2, strokeRightWeight |-> 0,
             strokeBottomWeight |-> 1, strokeLeftWeight |-> 0]
      [] kind = "text" ->
            [type |-> "TEXT", characters |-> <<"a", "b">>,
             fontFamily |-> "Roboto", fontWeight |-> "bold", fontStyle |-> "normal"]
      [] kind = "rich" ->
            [type |-> "TEXT", characters |-> <<"a", "b">>,
             fontFamily |-> "Inter", fontWeight |-> "regular", fontStyle |-> "normal",
             styleRanges |->
                <<[start |-> 0, end |-> 1, fontFamily |-> "Roboto",
                   fontWeight |-> "bold", fontStyle |-> "normal"],
                  [start |-> 1, end |-> 2, fontFamily |-> "Inter",
                   fontWeight |-> "regular", fontStyle |-> "italic"]>>]

RECURSIVE LayerData(_, _, _, _)
\* the IR node e of a tree of n nodes, with the nodes below it
LayerData(e, n, parent, kinds) ==
    LET below == SetToSortedSeq({c \in (e + 1)..n : parent[c] = e})
        own == Merge([name |-> <<LayerNames[e]>>,
                      x |-> 100 + 20 * (e - 1) + 7 * (e - 1) * (e - 2),
                      y |-> 50 + 20 * (e - 1) - 11 * (e - 1) * (e - 2),
                      width |-> 30, height |-> 40],
                     KindFields(kinds[e]))
    IN  IF own.type = "FRAME"
        THEN Merge(own, [children |-> [i \in 1..Len(below) |->
                                          LayerData(below[i], n, parent, kinds)]])
        ELSE own

LayerTrees ==
    UNION {{LayerData(1, n, tree.parent, tree.kinds) :
                tree \in {t \in [kinds : [1..n -> LayerKinds],
                                  parent : [2..n -> 1..(n - 1)]] :
                             /\ t.kinds[1] = "frame"
                             /\ \A e \in 2..n :
                                   /\ t.parent[e] < e
                                   /\ t.kinds[t.parent[e]] \in {"frame", "donut"}}} :
           n \in 1..MaxLayers}

\* an IR tree, or no data at all
InitImport ==
    /\ ExtractorIdle
    /\ ir \in {Null} \cup LayerTrees
    /\ catalog \in {{}, {InterRegular, [family |-> "Roboto", style |-> Bold]}}
    /\ figma = FigmaIdle

NextImport == ReceiveImport \/ FigmaStep

SpecImport == InitImport /\ [][NextImport]_vars

-----------------------------------------------------------------------------
(* Claims about the import.                                                *)

\* the nodes of the IR tree below layer, layer among them
LayersOf(layer) ==
    UNION {LET level == Below(<<layer>>, k)
           IN  {level[i] : i \in 1..Len(level)} :
           k \in 0..Height(layer)}

\* the native nodes created from the IR node data, which its name tells
NativesOf(data) == {id \in 1..Len(figma.scene) : figma.scene[id].name = data.name}
NativeOf(data) == CHOOSE id \in NativesOf(data) : TRUE

RECURSIVE PagePosition(_)
\* the position on the page of the native node id: the sum of the positions
\* of the native nodes from the root down to it
PagePosition(id) ==
    LET layer == figma.scene[id]
    IN  IF layer.parent = NoLayer THEN <<layer.x, layer.y>>
        ELSE <<PagePosition(layer.parent)[1] + layer.x,
               PagePosition(layer.parent)[2] + layer.y>>

imported ==
    /\ figma.phase = "done"
    /\ ir # Null
    /\ figma.notice = <<[error |-> FALSE, message |-> "Imported successfully!"]>>

\* C5: once a tree is imported, the native node of every IR node but the root
\* lies, in its parent's native node, at the captured position of the IR node
\* minus the captured position of the parent of the IR node, the native node
\* of the root lies at the captured position of the root, and the positions of
\* the native nodes from the root down to a node add up to the captured
\* position of its IR node.
C5_RelativeToParentCapture ==
    imported =>
        /\ Cardinality(NativesOf(ir)) = 1
        /\ figma.scene[NativeOf(ir)].parent = NoLayer
        /\ figma.scene[NativeOf(ir)].x = ir.x
        /\ figma.scene[NativeOf(ir)].y = ir.y
        /\ \A data \in LayersOf(ir) :
              /\ Cardinality(NativesOf(data)) = 1
              /\ PagePosition(NativeOf(data)) = <<data.x, data.y>>
              /\ \A i \in 1..Len(GetOr(data, "children", <<>>)) :
                    LET child == data.children[i]
                        layer == figma.scene[NativeOf(child)]
                    IN  /\ layer.parent = NativeOf(data)
                        /\ layer.x = child.x - data.x
                        /\ layer.y = child.y - data.y

\* a tree is imported where the second node, captured at (120, 70), is a child
\* of the root, captured at (100, 50), and has a child of its own: its native
\* node lies at (20, 20) and has a child
C5_Witness ==
    /\ imported
    /\ Len(GetOr(ir, "children", <<>>)) > 0
    /\ <<ir.x, ir.y>> = <<100, 50>>
    /\ <<ir.children[1].x, ir.children[1].y>> = <<120, 70>>
    /\ Len(GetOr(ir.children[1], "children", <<>>)) > 0
    /\ LET layer == figma.scene[NativeOf(ir.children[1])]
       IN  /\ <<layer.x, layer.y>> = <<20, 20>>
           /\ \E id \in 1..Len(figma.scene) :
                 /\ figma.scene[id].parent = NativeOf(ir.children[1])
                 /\ figma.scene[id].x # 0

\* the native nodes appended to the native node id for IR children: its
\* children but the arcs drawn for its borders
AttachedTo(id) ==
    SelectSeq(figma.scene[id].children, LAMBDA c : figma.scene[c].arcData = Null)

\* createLayer has been called for the IR node data
started(data) ==
    \/ NativesOf(data) # {}
    \/ \E k \in 1..Len(figma.calls) :
          figma.calls[k].kind = "createLayer" /\ figma.calls[k].data.name = data.name

\* the call of createLayer for the IR node data has returned: the nodes
\* below data, and data, have their native nodes, each appended to its parent
\* and holding the native nodes of all its children
constructed(data) ==
    /\ \A k \in 1..Len(figma.calls) :
          figma.calls[k].kind = "createLayer" =>
              figma.calls[k].data.name \notin {d.name : d \in LayersOf(data)}
    /\ \A d \in LayersOf(data) :
          /\ NativesOf(d) # {}
          /\ figma.scene[NativeOf(d)].parent # NoLayer
          /\ Len(AttachedTo(NativeOf(d))) = Len(GetOr(d, "children", <<>>))

\* C6: at every moment of an import, the native nodes appended to the native
\* node of an IR node for its children are those of its first children, one
\* for each, in the order of the IR; and when createLayer is called for a
\* child, the child before it is appended and everything below that child is
\* constructed.
C6_ChildrenAttachedInOrder ==
    ir # Null =>
        \A data \in LayersOf(ir) :
            LET children == GetOr(data, "children", <<>>)
            IN  /\ NativesOf(data) # {} =>
                      LET attached == AttachedTo(NativeOf(data))
                      IN  /\ Len(attached) <= Len(children)
                          /\ \A i \in 1..Len(attached) :
                                figma.scene[attached[i]].name = children[i].name
                /\ \A i \in 1..(Len(children) - 1) :
                      started(children[i + 1]) =>
                          /\ NativesOf(data) # {}
                          /\ Len(AttachedTo(NativeOf(data))) >= i
                          /\ constructed(children[i])
                          /\ \A d \in LayersOf(children[i]) :
                                \A id \in NativesOf(children[i + 1]) :
                                    NativeOf(d) < id

\* createLayer is called for the second child of the root, which has no native
\* node yet, and the first child, with a child of its own, is constructed
C6_Witness ==
    /\ ir # Null
    /\ Len(GetOr(ir, "children", <<>>)) = 2
    /\ Len(GetOr(ir.children[1], "children", <<>>)) > 0
    /\ started(ir.children[2])
    /\ NativesOf(ir.children[2]) = {}
    /\ constructed(ir.children[1])
    /\ AttachedTo(NativeOf(ir)) = <<NativeOf(ir.children[1])>>

-----------------------------------------------------------------------------
(* From page to canvas: the inputs.  BODY holds the element #box, which    *)
(* holds two elements; #box is a flex, inline-flex, table or block         *)
(* container, in either direction, with or without gaps, and its second    *)
(* child has or has no margins.                                            *)

BoxGap == 8
BoxMargin == 4

Box(display, flexDirection, rowGap, columnGap, margin) ==
    Document({Element(1, "BODY", <<2>>),
              [Element(2, "DIV", <<3, 4>>)
                  EXCEPT !.idAttr = <<"box">>,
                         !.rect.left = 2,
                         !.style.display = display,
                         !.style.flexDirection = flexDirection,
                         !.style.rowGap = rowGap,
                         !.style.columnGap = columnGap],
              [Element(3, "DIV", <<>>) EXCEPT !.rect.left = 3],
              [Element(4, "DIV", <<>>)
                  EXCEPT !.rect.left = 4,
                         !.style.marginTop = margin,
                         !.style.marginLeft = margin]},
             1)

InitPipeline ==
    /\ dom \in {Box(display, flexDirection, rowGap, columnGap, margin) :
                   display \in {"flex", "inline-flex", "table", "block"},
                   flexDirection \in {"row", "column"},
                   rowGap \in {0, BoxGap}, columnGap \in {0, BoxGap},
                   margin \in {0, BoxMargin}}
    /\ stack = <<>>
    /\ out = Pending
    /\ op = "idle"
    /\ ir = Null
    /\ catalog = {InterRegular}
    /\ figma = FigmaIdle

\* the user pastes the JSON text of the captured data into the plugin's UI,
\* which parses it: the IR holds numbers, strings, booleans, arrays and
\* objects only, and JSON.parse(JSON.stringify(data)) is data again
PasteCapture ==
    /\ op = "onMessage"
    /\ ir = Null
    /\ figma.phase = "idle"
    /\ ir' = out.data
    /\ UNCHANGED <<catalog, figma>>
    /\ UNCHANGED extractVars

NextPipeline ==
    ReceiveCapture \/ CaptureStep \/ PasteCapture \/ ReceiveImport \/ FigmaStep

SpecPipeline == InitPipeline /\ [][NextPipeline]_vars

-----------------------------------------------------------------------------
(* Claims about auto-layout.                                               *)

\* C3: once the extractor's IR of a page is imported, the native frame of
\* every element whose display is flex or inline-flex and that the extractor
\* emitted as a FRAME has auto-layout: its layout mode is VERTICAL when the
\* flex-direction of the element is column and HORIZONTAL otherwise, and its
\* item spacing is the gap the element declares on that axis.
C3_FlexBecomesAutoLayout ==
    imported =>
        \A e \in DOMAIN dom.nodes :
            LET element == dom.nodes[e]
                column == element.style.flexDirection = "column"
            IN  \A data \in {d \in LayersOf(ir) :
                                d.name = <<"#">> \o element.idAttr /\ d.type = "FRAME"} :
                    (element.idAttr # <<>>
                        /\ element.style.display \in {"flex", "inline-flex"}) =>
                        \A id \in NativesOf(data) :
                            /\ figma.scene[id].layoutMode =
                                  IF column THEN "VERTICAL" ELSE "HORIZONTAL"
                            /\ figma.scene[id].itemSpacing =
                                  IF column THEN element.style.rowGap
                                  ELSE element.style.columnGap

-----------------------------------------------------------------------------
(* Claims about the sort keys.                                             *)

SortKeys == {"_zIndex", "_position", "_float"}

\* C11: no node of the IR tree a CAPTURE command returns, at any depth and in
\* any group, carries one of the sort keys _zIndex, _position, _float.
C11_NoSortKeysInResponse ==
    op = "onMessage" =>
        \A layer \in LayersOf(out.data) : DOMAIN layer \cap SortKeys = {}

-----------------------------------------------------------------------------
(* Strokes: the inputs.  One IR node, a frame or a rectangle 20 wide and   *)
(* 20 to 22 high, with no, one or two strokes, a weight for each side and  *)
(* a corner radius, given as cornerRadius, as topLeftRadius or not at all. *)

SideWeights == {0, 1, 2, 4}
RingHeights == {20, 21, 22}
RingRadii == {7, 8, 10}
StrokeLists ==
    {<<>>,
     <<[type |-> "SOLID", color |-> "red"]>>,
     <<[type |-> "SOLID", color |-> "red", opacity |-> 1],
       [type |-> "SOLID", color |-> "blue", opacity |-> 1]>>}

Ring(type, height, radius, strokes, w) ==
    Merge([name |-> <<"ring">>, type |-> type, x |-> 5, y |-> 6,
           width |-> 20, height |-> height, fills |-> <<>>, children |-> <<>>,
           strokes |-> strokes,
           strokeTopWeight |-> w[1], strokeRightWeight |-> w[2],
           strokeBottomWeight |-> w[3], strokeLeftWeight |-> w[4]],
          radius)

Rings ==
    {Ring(type, height, radius, strokes, w) :
        type \in {"FRAME", "RECTANGLE"}, height \in RingHeights,
        radius \in {<<>>} \cup {[cornerRadius |-> r] : r \in RingRadii}
                          \cup {[topLeftRadius |-> r] : r \in RingRadii},
        strokes \in StrokeLists,
        w \in [1..4 -> SideWeights]}

InitStrokes ==
    /\ ExtractorIdle
    /\ ir \in Rings
    /\ catalog = {InterRegular}
    /\ figma = FigmaIdle

NextStrokes == ReceiveImport \/ FigmaStep

SpecStrokes == InitStrokes /\ [][NextStrokes]_vars

-----------------------------------------------------------------------------
(* Claims about the arcs of a circle.                                      *)

\* the native nodes that are arcs
Arcs == {id \in 1..Len(figma.scene) : figma.scene[id].arcData # Null}

\* the weights of the sides of the IR node data: top, right, bottom, left
sideWeights(data) ==
    <<GetOr(data, "strokeTopWeight", 0), GetOr(data, "strokeRightWeight", 0),
      GetOr(data, "strokeBottomWeight", 0), GetOr(data, "strokeLeftWeight", 0)>>

SideNames == <<"Border Top", "Border Right", "Border Bottom", "Border Left">>

\* the IR node data is near-circular: its width and height differ by less
\* than 2 and its corner radius is at least width / 2 - 2
nearCircular(data) ==
    /\ Abs(data.width - data.height) < 2
    /\ \E field \in {"cornerRadius", "topLeftRadius"} :
          Has(data, field) /\ 2 * data[field] >= data.width - 4

-----------------------------------------------------------------------------
(* From page to canvas, a ring: the inputs.  BODY holds the element #ring, *)
(* 20 by 20, round or not, whose border is red at the top, blue at the     *)
(* right, green at the bottom and black at the left, or red all around,    *)
(* each side RingBorder wide or without border.                            *)

RingBorder == 2

BorderColors == <<"red", "blue", "green", "black">>

RingElement(radius, sides, colors) ==
    Document({Element(1, "BODY", <<2>>),
              [Element(2, "DIV", <<>>)
                  EXCEPT !.idAttr = <<"ring">>,
                         !.rect = [left |-> 2, top |-> 0, width |-> 20, height |-> 20],
                         !.offsetWidth = 20, !.offsetHeight = 20,
                         !.style.borderRadius = radius,
                         !.style.topLeftRadius = radius,
                         !.style.borderTopWidth = sides[1],
                         !.style.borderRightWidth = sides[2],
                         !.style.borderBottomWidth = sides[3],
                         !.style.borderLeftWidth = sides[4],
                         !.style.borderTopColor = [rgb |-> colors[1], a |-> 1],
                         !.style.borderRightColor = [rgb |-> colors[2], a |-> 1],
                         !.style.borderBottomColor = [rgb |-> colors[3], a |-> 1],
                         !.style.borderLeftColor = [rgb |-> colors[4], a |-> 1]]},
             1)

InitRing ==
    /\ dom \in {RingElement(radius, sides, colors) :
                   radius \in {0, 10},
                   sides \in [1..4 -> {0, RingBorder}],
                   colors \in {BorderColors, <<"red", "red", "red", "red">>}}
    /\ stack = <<>>
    /\ out = Pending
    /\ op = "idle"
    /\ ir = Null
    /\ catalog = {InterRegular}
    /\ figma = FigmaIdle

SpecRing == InitRing /\ [][NextPipeline]_vars

-----------------------------------------------------------------------------
(* Claims about the colours of the arcs.                                   *)

\* C13: once the extractor's IR of a page is imported, every arc drawn for a
\* side of the border of a circular element is filled with the colour of
\* that side: the top arc with the top border colour, the right arc with the
\* right border colour, the bottom arc with the bottom border colour and the
\* left arc with the left border colour.
C13_ArcHasColourOfItsSide ==
    imported =>
        LET style == dom.nodes[2].style
            colour == <<style.borderTopColor.rgb, style.borderRightColor.rgb,
                        style.borderBottomColor.rgb, style.borderLeftColor.rgb>>
        IN  \A id \in Arcs : \A i \in 1..4 :
                figma.scene[id].name = <<SideNames[i]>> =>
                    /\ Len(figma.scene[id].fills) = 1
                    /\ figma.scene[id].fills[1].color = colour[i]

-----------------------------------------------------------------------------
(* Failing captures: the inputs.  Up to MaxFigures svg elements, each with *)
(* a fill that refers to no paint server, to the paint server g or to the  *)
(* paint server 1g, side by side in the body, in a DIV of the body, or in  *)
(* the body of the document of an inline frame.                            *)

MaxFigures == 3

PaintIds == {<<>>, <<"g">>, <<"1", "g">>}

Figure(id, fill) ==
    [Element(id, "svg", <<>>) EXCEPT !.style.fill = fill, !.rect.left = id]

Gallery(fills, holder) ==
    LET n == Len(fills)
        figures == {Figure(i + 1, fills[i]) : i \in 1..n}
        hung == [i \in 1..n |-> i + 1]
    IN  IF holder = "BODY"
        THEN Document({Element(1, "BODY", hung)} \cup figures, 1)
        ELSE IF holder = "DIV"
        THEN Document({Element(1, "BODY", <<n + 2, n + 3>>),
                       Element(n + 2, "DIV", hung),
                       Element(n + 3, "DIV", <<>>)} \cup figures, 1)
        ELSE Document({Element(1, "BODY", <<n + 2, n + 3>>),
                       [Element(n + 2, "IFRAME", <<>>) EXCEPT
                           !.contentDocument =
                               [body |-> n + 4, scrollX |-> 0, scrollY |-> 0]],
                       Element(n + 3, "DIV", <<>>),
                       Element(n + 4, "BODY", hung)} \cup figures, 1)

InitFailing ==
    /\ dom \in {Gallery(fills, holder) :
                   fills \in UNION {[1..n -> PaintIds] : n \in 1..MaxFigures},
                   holder \in {"BODY", "DIV", "IFRAME"}}
    /\ stack = <<>>
    /\ out = Pending
    /\ op = "idle"
    /\ SynthIdle

NextFailing == CallCaptureNode \/ ReceiveCapture \/ CaptureStep

SpecFailing == InitFailing /\ [][NextFailing]_vars

-----------------------------------------------------------------------------
(* Claims about a failure while a node is captured.                        *)

\* the svg elements of the document whose markup is inlined without an
\* exception, by their left edges
Inlined ==
    {dom.nodes[id].rect.left :
        id \in {e \in DOMAIN dom.nodes : /\ dom.nodes[e].tagName = "svg"
                                         /\ ~inlineSvgStyles(dom.nodes[e]).throws}}

\* C14: an exception raised while one node is captured (here while its vector
\* markup is inlined) drops only that node: the CAPTURE command still responds
\* with the tree, and the tree holds every other svg element of the document.
C14_FailureDropsOnlyNode ==
    op = "onMessage" =>
        /\ Has(out, "data")
        /\ {layer.x : layer \in {l \in LayersOf(out.data) : l.type = "SVG"}} = Inlined

\* a CAPTURE command responded for a document one of whose svg elements
\* cannot be inlined
C14_FailureReached ==
    /\ op = "onMessage"
    /\ \E e \in DOMAIN dom.nodes :
          dom.nodes[e].tagName = "svg" /\ inlineSvgStyles(dom.nodes[e]).throws

-----------------------------------------------------------------------------
(* Imports that fail: the inputs.  The root frame holds up to MaxParts     *)
(* parts: a frame, a text, an image, an SVG with or without content, an    *)
(* image that holds a frame (an album), or a frame that holds a text (a    *)
(* group).  The payload may also be missing.                               *)

MaxParts == 3

PartKinds == {"frame", "text", "image", "svg", "broken", "album", "group"}

DigitChars == <<"1", "2", "3", "4", "5", "6", "7", "8", "9">>

PartFields(kind) ==
    CASE kind \in {"frame", "group"} -> [type |-> "FRAME", fills |-> <<>>]
      [] kind = "text" -> KindFields("text")
      [] kind \in {"image", "album"} -> [type |-> "IMAGE"]
      [] kind = "svg" -> [type |-> "SVG", svgContent |-> <<"svg", 1>>]
      [] kind = "broken" -> [type |-> "SVG"]

Part(i, kind) ==
    LET own == Merge([name |-> <<"p", DigitChars[i]>>,
                      x |-> 100 + 30 * i, y |-> 50 + 10 * i,
                      width |-> 20, height |-> 8],
                     PartFields(kind))
        inner == Merge([name |-> <<"q", DigitChars[i]>>,
                        x |-> 103 + 30 * i, y |-> 54 + 10 * i,
                        width |-> 10, height |-> 4],
                       PartFields(IF kind = "album" THEN "frame" ELSE "text"))
    IN  IF kind \in {"album", "group"} THEN Merge(own, [children |-> <<inner>>])
        ELSE own

Parts(kinds) ==
    [name |-> <<"r">>, type |-> "FRAME", x |-> 10, y |-> 20,
     width |-> 200, height |-> 100, fills |-> <<>>,
     children |-> [i \in 1..Len(kinds) |-> Part(i, kinds[i])]]

InitParts ==
    /\ ExtractorIdle
    /\ ir \in {Null} \cup {Parts(kinds) :
                              kinds \in UNION {[1..n -> PartKinds] : n \in 0..MaxParts}}
    /\ catalog = {InterRegular}
    /\ figma = FigmaIdle

NextParts == ReceiveImport \/ FigmaStep

SpecParts == InitParts /\ [][NextParts]_vars

-----------------------------------------------------------------------------
(* Claims about the failures of an import.                                 *)

\* the native nodes that lie on the page where the IR node data was captured
NativesAt(data) ==
    {id \in 1..Len(figma.scene) : PagePosition(id) = <<data.x, data.y>>}

\* the IR nodes of type SVG whose markup createNodeFromSvg rejects
Rejected == {d \in LayersOf(ir) : d.type = "SVG" /\ ~Has(d, "svgContent")}

\* the IR nodes whose native node cannot be appended to that of their parent
Unattachable ==
    {c \in LayersOf(ir) :
        \E d \in LayersOf(ir) :
            /\ d.type \in {"IMAGE", "RECTANGLE", "TEXT"}
            /\ \E i \in 1..Len(GetOr(d, "children", <<>>)) : d.children[i] = c}

\* C15: an import with an SVG node whose native vector node cannot be created
\* completes as it would without that node (it fails only for a node that
\* cannot be appended), and when it is over the node created for such an SVG
\* node is a frame named 'SVG (Failed to import)'.
C15_PlaceholderNamed ==
    (figma.phase = "done" /\ ir # Null) =>
        /\ Unattachable = {} => imported
        /\ \A d \in Rejected :
              \A id \in NativesAt(d) :
                  /\ figma.scene[id].type = "FRAME"
                  /\ figma.scene[id].name = <<"SVG (Failed to import)">>

\* every node of the IR tree has its native node, and the native node of
\* every node but the root is a child of the native node of its parent
synthesized ==
    /\ ir # Null
    /\ \A d \in LayersOf(ir) :
          /\ Cardinality(NativesOf(d)) = 1
          /\ \A i \in 1..Len(GetOr(d, "children", <<>>)) :
                /\ NativesOf(d.children[i]) # {}
                /\ figma.scene[NativeOf(d.children[i])].parent = NativeOf(d)

RECURSIVE Preorder(_)
\* the nodes of the IR trees layers, in depth-first order
Preorder(layers) ==
    IF layers = <<>> THEN <<>>
    ELSE <<Head(layers)>> \o Preorder(GetOr(Head(layers), "children", <<>>))
                          \o Preorder(Tail(layers))

\* the import has ended with an error notification for a payload
failed ==
    /\ figma.phase = "done"
    /\ ir # Null
    /\ Len(figma.notice) = 1
    /\ figma.notice[1].error

\* the IR node child is a child of the IR node data
ChildOf(child, data) ==
    \E i \in 1..Len(GetOr(data, "children", <<>>)) : data.children[i] = child

\* when an import has failed, the IR nodes that have native nodes are the
\* first ones in depth-first order, the last of them is the one whose
\* synthesis failed (its native node is not attached), and the native nodes
\* of the others are attached as the IR tells
StoppedAtFailure ==
    failed =>
        LET order == Preorder(<<ir>>)
            made == {k \in 1..Len(order) : NativesOf(order[k]) # {}}
            last == Cardinality(made)
        IN  /\ made = 1..last
            /\ last > 1
            /\ figma.scene[NativeOf(order[last])].parent = NoLayer
            /\ \A k \in 2..(last - 1) :
                  \E j \in 1..(k - 1) :
                      /\ ChildOf(order[k], order[j])
                      /\ figma.scene[NativeOf(order[k])].parent = NativeOf(order[j])
                      /\ NativeOf(order[k]) \in
                            {figma.scene[NativeOf(order[j])].children[c] :
                                c \in 1..Len(figma.scene[NativeOf(order[j])].children)}

\* the step that issues the error notification leaves every native node
\* there was as it was
NoRollback ==
    (Len(figma'.notice) > Len(figma.notice) /\ figma'.notice[Len(figma'.notice)].error) =>
        /\ Len(figma'.scene) >= Len(figma.scene)
        /\ \A id \in 1..Len(figma.scene) : figma'.scene[id] = figma.scene[id]

\* C17: an exception during the synthesis of a node ends the import: the
\* nodes after it in depth-first order get no native node, the native nodes
\* created before stay in the document attached as they were, and the error
\* is notified.
C17_FailureStopsImport == [](StoppedAtFailure) /\ [][NoRollback]_vars

\* an import has failed at its fourth node, with a node left to come
C17_Witness ==
    /\ failed
    /\ Len(figma.scene) = 4
    /\ figma.scene[2].parent = 1
    /\ \E d \in LayersOf(ir) : NativesOf(d) = {}

-----------------------------------------------------------------------------
(* Overlapping imports: the inputs.  The root frame holds up to MaxNotes   *)
(* nodes, texts in a font of the catalog or frames, and the UI posts the   *)
(* message again while it is handled.                                      *)

MaxNotes == 2

Notes(kinds) ==
    [name |-> <<"r">>, type |-> "FRAME", x |-> 10, y |-> 20,
     width |-> 200, height |-> 100, fills |-> <<>>,
     children |-> [i \in 1..Len(kinds) |->
                      Merge([name |-> <<"t", DigitChars[i]>>,
                             x |-> 100 + 30 * i, y |-> 50 + 10 * i,
                             width |-> 20, height |-> 8],
                            KindFields(kinds[i]))]]

InitOverlap ==
    /\ ExtractorIdle
    /\ ir \in {Notes(kinds) :
                  kinds \in UNION {[1..n -> {"text", "frame"}] : n \in 1..MaxNotes}}
    /\ catalog = {InterRegular, [family |-> "Roboto", style |-> Bold]}
    /\ figma = FigmaIdle

NextOverlap == ReceiveImport \/ ReceiveImportSuspended \/ ResumeImport \/ FigmaStep

SpecOverlap == InitOverlap /\ [][NextOverlap]_vars

-----------------------------------------------------------------------------
(* Claims about the font loads.                                            *)

\* the font loads that are pending
PendingLoads ==
    Cardinality({k \in 1..Len(figma.suspended) : pendingLoad(figma.suspended[k])})
        + (IF pendingLoad(figma.calls) THEN 1 ELSE 0)

\* C18: at every moment at most one font load is pending, also when the UI
\* posts an IMPORT message while the handler of an earlier one is suspended
\* at a font load.
C18_OneLoadPending == PendingLoads <= 1

-----------------------------------------------------------------------------
(* Fixed elements: the inputs.  BODY holds the element #bar, fixed and     *)
(* anchored by top or by bottom, or static; #bar holds up to MaxInside     *)
(* nodes, each an element, a text node or a math container; the window is  *)
(* scrolled by up to MaxScroll.  Rectangles are relative to the viewport.  *)

MaxInside == 2
MaxScroll == 2

Inside(id, kind) ==
    LET node == CASE kind = "DIV" -> Element(id, "DIV", <<>>)
                  [] kind = "text" -> TextNode(id, <<"a">>)
                  [] kind = "math" ->
                        [Element(id, "DIV", <<>>) EXCEPT !.texSource = <<"x">>]
    IN  [node EXCEPT !.rect.left = id, !.rect.top = 3 * id]

Bar(kinds, anchor, scrollY) ==
    LET n == Len(kinds)
        bar == [Element(2, "DIV", [i \in 1..n |-> i + 2]) EXCEPT
                   !.idAttr = <<"bar">>,
                   !.rect = [left |-> 2, top |-> 4, width |-> 60, height |-> 30],
                   !.offsetWidth = 60, !.offsetHeight = 30,
                   !.style.position = IF anchor = "static" THEN "static" ELSE "fixed",
                   !.style.top = IF anchor = "top" THEN Px(4) ELSE Auto,
                   !.style.bottom = IF anchor = "bottom" THEN Px(0) ELSE Auto]
    IN  [Document({Element(1, "BODY", <<2>>), bar}
                      \cup {Inside(i + 2, kinds[i]) : i \in 1..n}, 1)
            EXCEPT !.scrollY = scrollY]

InitFixed ==
    /\ dom \in {Bar(kinds, anchor, scrollY) :
                   kinds \in UNION {[1..n -> {"DIV", "text", "math"}] : n \in 1..MaxInside},
                   anchor \in {"top", "bottom", "static"},
                   scrollY \in 0..MaxScroll}
    /\ stack = <<>>
    /\ out = Pending
    /\ op = "idle"
    /\ SynthIdle

NextFixed == CallCaptureNode \/ ReceiveCapture \/ CaptureStep

SpecFixed == InitFixed /\ [][NextFixed]_vars

-----------------------------------------------------------------------------
(* Claims about fixed elements.                                            *)

\* the layers of #bar in what the operation returned
BarLayers ==
    {layer \in LayersOf(IF op = "onMessage" THEN out.data ELSE out) :
        layer.name = <<"#", "bar">>}

\* C19: the layer of an element fixed and anchored by top lies at the top of
\* the element in the viewport, whatever the scroll position, and every layer
\* below it (of an element, of a text node, of a math container) lies as far
\* below it as its node lies below the element in the viewport.
C19_FixedTopKeepsOffsets ==
    (op \in {"onMessage", "captureNode"} /\ Node(2).style.top # Auto) =>
        \A bar \in BarLayers :
            /\ bar.y = Node(2).rect.top
            /\ \A layer \in LayersOf(bar) :
                  layer.y - bar.y = Node(layer.x).rect.top - Node(2).rect.top

-----------------------------------------------------------------------------
(* Capturing twice: the documents of the hoisting family and those with    *)
(* svg elements, captured, and captured again once the listener has        *)
(* responded.                                                              *)

\* the popup has copied the data of the response to the clipboard, from
\* where the plugin's UI will take it, and requests CAPTURE again; the
\* document and the scroll position are as they were
ReceiveCaptureAgain ==
    /\ op = "onMessage"
    /\ Has(out, "data")
    /\ ir = Null
    /\ ir' = out.data
    /\ stack' = <<Listener>>
    /\ op' = "running"
    /\ out' = Pending
    /\ UNCHANGED <<dom, catalog, figma>>

NextTwice == ReceiveCapture \/ CaptureStep \/ ReceiveCaptureAgain

InitTwice == InitHoist \/ InitFailing

SpecTwice == InitTwice /\ [][NextTwice]_vars

-----------------------------------------------------------------------------
(* Three siblings: the inputs.  BODY holds three positioned elements with  *)
(* the z-indexes -1, auto and 3, in each of the six orders, each of them   *)
(* relative, absolute, fixed or sticky.  The top of an element tells its   *)
(* z-index: 10 for -1, 20 for auto, 30 for 3.                              *)

ZIndexes == <<ZInt(0 - 1), ZAuto, ZInt(3)>>

Orders == {order \in [1..3 -> 1..3] : {order[i] : i \in 1..3} = 1..3}

Trio(order, positions) ==
    Document({Element(1, "BODY", <<2, 3, 4>>)}
                \cup {[Element(i + 1, "DIV", <<>>) EXCEPT
                          !.rect.left = i,
                          !.rect.top = 10 * order[i],
                          !.style.zIndex = ZIndexes[order[i]],
                          !.style.position = positions[order[i]]] : i \in 1..3},
             1)

InitTrio ==
    /\ dom \in {Trio(order, positions) :
                   order \in Orders,
                   positions \in [1..3 -> {"relative", "absolute", "fixed", "sticky"}]}
    /\ stack = <<>>
    /\ out = Pending
    /\ op = "idle"
    /\ SynthIdle

NextTrio == CallCaptureNode \/ CaptureStep

SpecTrio == InitTrio /\ [][NextTrio]_vars

-----------------------------------------------------------------------------
(* Extractor: parseColor.  A value that may be absent is Null or the       *)
(* string Str(chars), chars being the sequence of its characters; a number *)
(* is the fraction [n, d] (n / d), or NaN.                                 *)

Str(chars) == [string |-> chars]

NaN == [nan |-> TRUE]
Fraction(n, d) == [n |-> n, d |-> d]
Whole(n) == Fraction(n, 1)

\* x / 255, x a number, NaN or undefined (NaN stands for both)
Over255(x) == IF x = NaN THEN NaN ELSE Fraction(x.n, 255 * x.d)

\* the numbers x and y are equal
SameNumber(x, y) == x # NaN /\ y # NaN /\ x.n * y.d = y.n * x.d

HexValues ==
    [c \in Digits \cup {"a", "b", "c", "d", "e", "f", "A", "B", "C", "D", "E", "F"} |->
        CASE c = "0" -> 0 [] c = "1" -> 1 [] c = "2" -> 2 [] c = "3" -> 3
          [] c = "4" -> 4 [] c = "5" -> 5 [] c = "6" -> 6 [] c = "7" -> 7
          [] c = "8" -> 8 [] c = "9" -> 9
          [] c \in {"a", "A"} -> 10 [] c \in {"b", "B"} -> 11
          [] c \in {"c", "C"} -> 12 [] c \in {"d", "D"} -> 13
          [] c \in {"e", "E"} -> 14 [] c \in {"f", "F"} -> 15]

\* the length of the longest run of characters of the class from s[i] on
Run(s, i, class) ==
    CHOOSE k \in 0..(Len(s) - i + 1) :
        /\ \A m \in 0..(k - 1) : s[i + m] \in class
        /\ i + k > Len(s) \/ s[i + k] \notin class

RECURSIVE NumeralValue(_, _)
\* the value of the numeral digits in the base given
NumeralValue(digits, base) ==
    IF digits = <<>> THEN 0
    ELSE base * NumeralValue(SubSeq(digits, 1, Len(digits) - 1), base)
            + HexValues[digits[Len(digits)]]

RECURSIVE PowerOfTen(_)
PowerOfTen(k) == IF k = 0 THEN 1 ELSE 10 * PowerOfTen(k - 1)

\* parseInt(text, 16): the value of the hexadecimal digits text begins with
parseIntHex(text) ==
    LET k == Run(text, 1, DOMAIN HexValues)
    IN  IF k = 0 THEN NaN ELSE Whole(NumeralValue(SubSeq(text, 1, k), 16))

\* parseInt(text) for a text of decimal digits
parseInt(text) ==
    LET k == Run(text, 1, Digits)
    IN  IF k = 0 THEN NaN ELSE Whole(NumeralValue(SubSeq(text, 1, k), 10))

\* parseFloat(text) for a text of digits and dots: the digits text begins
\* with, and the digits after a dot that follows them
parseFloat(text) ==
    LET whole == Run(text, 1, Digits)
        dotted == whole < Len(text) /\ text[whole + 1] = "."
        decimals == IF dotted THEN Run(text, whole + 2, Digits) ELSE 0
    IN  IF whole = 0 /\ decimals = 0 THEN NaN
        ELSE Fraction(NumeralValue(SubSeq(text, 1, whole), 10) * PowerOfTen(decimals)
                        + NumeralValue(SubSeq(text, whole + 2, whole + 1 + decimals), 10),
                      PowerOfTen(decimals))

\* no match: the empty sequence of groups
NoMatch == <<>>

\* the groups of /rgba?\((\d+),\s*(\d+),\s*(\d+)(?:,\s*([\d.]+))?\)/ matched
\* from s[i] on, or NoMatch; the fourth group is Null when its part is absent
rgbMatchAt(s, i) ==
    LET at(j) == IF j <= Len(s) THEN s[j] ELSE ""
        open == IF at(i + 3) = "a" THEN i + 4 ELSE i + 3
        r == open + 1
        rLen == Run(s, r, Digits)
        g == r + rLen + 1 + Run(s, r + rLen + 1, JsWhiteSpace)
        gLen == Run(s, g, Digits)
        b == g + gLen + 1 + Run(s, g + gLen + 1, JsWhiteSpace)
        bLen == Run(s, b, Digits)
        a == b + bLen + 1 + Run(s, b + bLen + 1, JsWhiteSpace)
        aLen == Run(s, a, Digits \cup {"."})
        numbers == /\ i + 2 <= Len(s) /\ SubSeq(s, i, i + 2) = <<"r", "g", "b">>
                   /\ at(open) = "("
                   /\ rLen > 0 /\ at(r + rLen) = ","
                   /\ gLen > 0 /\ at(g + gLen) = ","
                   /\ bLen > 0
        three == <<Str(SubSeq(s, r, r + rLen - 1)), Str(SubSeq(s, g, g + gLen - 1)),
                   Str(SubSeq(s, b, b + bLen - 1))>>
    IN  IF ~numbers THEN NoMatch
        ELSE IF at(b + bLen) = "," /\ aLen > 0 /\ at(a + aLen) = ")"
        THEN Append(three, Str(SubSeq(s, a, a + aLen - 1)))
        ELSE IF at(b + bLen) = ")" THEN Append(three, Null)
        ELSE NoMatch

\* colorString.match(...): the groups of the first match, or NoMatch
rgbMatch(s) ==
    LET starts == {i \in 1..Len(s) : rgbMatchAt(s, i) # NoMatch}
    IN  IF starts = {} THEN NoMatch ELSE rgbMatchAt(s, SetMin(starts))

\* parseColor(colorString), colorString being a string or absent (Null):
\* the colour, or the exception it throws
parseColor(colorString) ==
    IF colorString = Null \/ colorString = Str(<<>>)
          \/ colorString = Str(<<"t", "r", "a", "n", "s", "p", "a", "r", "e", "n", "t">>)
    THEN [r |-> Whole(0), g |-> Whole(0), b |-> Whole(0), a |-> Whole(0)]
    ELSE IF colorString.string[1] = "#"
    THEN LET hex == Tail(colorString.string)
             \* im[k]; NaN stands for undefined past the end
             doubled(k) == IF k <= Len(hex) THEN parseIntHex(<<hex[k], hex[k]>>)
                           ELSE NaN
             paired(k) == IF 2 * k - 1 <= Len(hex)
                          THEN parseIntHex(SubSeq(hex, 2 * k - 1, Min(2 * k, Len(hex))))
                          ELSE NaN
             short == Len(hex) \in {3, 4}
             im(k) == IF short THEN doubled(k) ELSE paired(k)
             defined(k) == IF short THEN k <= Len(hex) ELSE 2 * k - 1 <= Len(hex)
         IN  IF hex = <<>> THEN [thrown |-> "TypeError"]
             ELSE [r |-> Over255(im(1)), g |-> Over255(im(2)), b |-> Over255(im(3)),
                   a |-> IF defined(4) THEN Over255(im(4)) ELSE Whole(1)]
    ELSE LET match == rgbMatch(colorString.string)
         IN  IF match = NoMatch
             THEN [r |-> Whole(0), g |-> Whole(0), b |-> Whole(0), a |-> Whole(1)]
             ELSE [r |-> Over255(parseInt(match[1].string)),
                   g |-> Over255(parseInt(match[2].string)),
                   b |-> Over255(parseInt(match[3].string)),
                   a |-> IF match[4] # Null THEN parseFloat(match[4].string)
                         ELSE Whole(1)]

-----------------------------------------------------------------------------
(* Colours: the inputs.  parseColor is called with no value, with a word,  *)
(* with # and up to MaxHexDigits hexadecimal digits, or with an rgb() or   *)
(* rgba() value as computed styles hold them.                              *)

MaxHexDigits == 8

Channels == {0, 128, 255}

Numerals ==
    [n \in Channels |-> CASE n = 0 -> <<"0">>
                          [] n = 128 -> <<"1", "2", "8">>
                          [] n = 255 -> <<"2", "5", "5">>]

Alphas == {<<>>, <<"0">>, <<"0", ".", "5">>, <<"1">>}

Words ==
    {<<>>, <<"t", "r", "a", "n", "s", "p", "a", "r", "e", "n", "t">>,
     <<"r", "e", "d">>, <<"h", "s", "l", "(", "0", ")">>}

ColorInputs ==
    {[form |-> "absent"]}
        \cup {[form |-> "word", text |-> w] : w \in Words}
        \cup {[form |-> "hex", digits |-> d] :
                 d \in UNION {[1..k -> {"0", "8", "f"}] : k \in 0..MaxHexDigits}}
        \cup [form : {"rgb"}, named : {"rgb", "rgba"}, spaced : BOOLEAN,
              r : Channels, g : Channels, b : Channels, alpha : Alphas]

\* the value parseColor is called with for an input
ColorString(input) ==
    CASE input.form = "absent" -> Null
      [] input.form = "word" -> Str(input.text)
      [] input.form = "hex" -> Str(<<"#">> \o input.digits)
      [] input.form = "rgb" ->
            LET comma == IF input.spaced THEN <<",", " ">> ELSE <<",">>
                name == IF input.named = "rgba" THEN <<"r", "g", "b", "a">>
                        ELSE <<"r", "g", "b">>
            IN  Str(name \o <<"(">> \o Numerals[input.r] \o comma \o Numerals[input.g]
                        \o comma \o Numerals[input.b]
                        \o (IF input.alpha # <<>> THEN comma \o input.alpha ELSE <<>>)
                        \o <<")">>)

ParseColorCall(input) == [kind |-> "parseColor", pc |-> "enter", input |-> input]

InitColor ==
    /\ dom = Document({Element(1, "BODY", <<>>)}, 1)
    /\ stack \in {<<ParseColorCall(input)>> : input \in ColorInputs}
    /\ out = Pending
    /\ op = "running"
    /\ SynthIdle

\* parseColor returns, or throws
ReturnParseColor ==
    /\ stack # <<>>
    /\ stack[1].kind = "parseColor"
    /\ out' = [input |-> stack[1].input,
               value |-> parseColor(ColorString(stack[1].input))]
    /\ stack' = <<>>
    /\ op' = "parseColor"
    /\ UNCHANGED dom
    /\ UNCHANGED synthVars

NextColor == ReturnParseColor

SpecColor == InitColor /\ [][NextColor]_vars

-----------------------------------------------------------------------------
(* Claims about parseColor.                                                *)

\* the colours c and d are equal, channel by channel
SameColor(c, d) ==
    /\ ~Has(c, "thrown")
    /\ SameNumber(c.r, d.r) /\ SameNumber(c.g, d.g)
    /\ SameNumber(c.b, d.b) /\ SameNumber(c.a, d.a)

\* the colour the channels r, g, b, a of 0..255 stand for
Rgba(r, g, b, a) ==
    [r |-> Fraction(r, 255), g |-> Fraction(g, 255), b |-> Fraction(b, 255),
     a |-> Fraction(a, 255)]

\* the colour a hexadecimal value of 3, 4, 6 or 8 digits stands for
HexColor(digits) ==
    LET v(k) == HexValues[digits[k]]
        short == Len(digits) \in {3, 4}
        channel(k) == IF short THEN 17 * v(k) ELSE 16 * v(2 * k - 1) + v(2 * k)
    IN  Rgba(channel(1), channel(2), channel(3),
             IF Len(digits) \in {4, 8} THEN channel(4) ELSE 255)

\* C22: parseColor gives transparent black for no value, the empty value and
\* 'transparent'; for rgb() and rgba() the three channels over 255 and the
\* alpha given, or 1; for # and 3, 4, 6 or 8 hexadecimal digits the channels
\* over 255, alpha 1 when there is none; and opaque black for any other value.
C22_ParseColor ==
    op = "parseColor" =>
        LET input == out.input
            expected ==
                CASE input.form = "absent" -> Rgba(0, 0, 0, 0)
                  [] input.form = "word" ->
                        IF Len(input.text) \in {0, 11} THEN Rgba(0, 0, 0, 0)
                        ELSE Rgba(0, 0, 0, 255)
                  [] input.form = "hex" ->
                        IF Len(input.digits) \in {3, 4, 6, 8} THEN HexColor(input.digits)
                        ELSE Rgba(0, 0, 0, 255)
                  [] input.form = "rgb" ->
                        [Rgba(input.r, input.g, input.b, 255) EXCEPT
                            !.a = CASE input.alpha = <<"0">> -> Whole(0)
                                    [] input.alpha = <<"0", ".", "5">> -> Fraction(1, 2)
                                    [] OTHER -> Whole(1)]
        IN  SameColor(out.value, expected)

-----------------------------------------------------------------------------
(* Style ranges: the inputs.  A TEXT node of up to MaxChars characters     *)
(* with up to MaxRanges style ranges that start in 0..MaxChars and end in  *)
(* start..MaxChars + 1, so that a range may be empty, may end behind the   *)
(* text and may overlap or precede another: every range list that          *)
(* getRichTextData produces is of this shape, and so are lists it does not *)
(* produce.  The ranges at odd                                             *)
(* places are Roboto bold with a size, a fill and a case, the ranges at    *)
(* even places Inter italic with a link and a letter spacing.  Without     *)
(* ranges the node is the layer of a text node, which is never empty, with *)
(* or without a link.                                                      *)

MaxChars == 2

MaxRanges == 2

Letters == <<"a", "b", "c", "d", "e", "f">>

Href == [type |-> "URL", value |-> "https://example.org/"]

StyleRange(i, start, end) ==
    IF i % 2 = 1
    THEN [start |-> start, end |-> end, fontFamily |-> "Roboto", fontWeight |-> "bold",
          fontStyle |-> "normal", fontSize |-> 14, textCase |-> "UPPER",
          fill |-> [type |-> "SOLID", color |-> "red", opacity |-> 1],
          lineHeight |-> 0, letterSpacing |-> 0]
    ELSE [start |-> start, end |-> end, fontFamily |-> "Inter", fontWeight |-> "regular",
          fontStyle |-> "italic", fontSize |-> 12, textCase |-> "ORIGINAL",
          lineHeight |-> 0, letterSpacing |-> 1, link |-> Href]

Offsets == {at \in (0..MaxChars) \X (0..(MaxChars + 1)) : at[1] <= at[2]}

StyleRangeLists ==
    UNION {{[i \in 1..n |-> StyleRange(i, at[i][1], at[i][2])] : at \in [1..n -> Offsets]} :
           n \in 1..MaxRanges}

TextData(length) ==
    [type |-> "TEXT", name |-> <<"Text">>, x |-> 100, y |-> 50, width |-> 30, height |-> 40,
     characters |-> SubSeq(Letters, 1, length),
     fontFamily |-> "Inter", fontWeight |-> "regular", fontStyle |-> "normal",
     fontSize |-> 12]

Texts ==
    {Merge(TextData(length), [styleRanges |-> ranges]) :
        length \in 0..MaxChars, ranges \in StyleRangeLists}
        \cup {TextData(length) : length \in 1..MaxChars}
        \cup {Merge(TextData(length), [link |-> Href]) : length \in 1..MaxChars}

InitRanges ==
    /\ ExtractorIdle
    /\ ir \in Texts
    /\ catalog \in {{}, {InterRegular, [family |-> "Roboto", style |-> Bold]},
                    {[family |-> "Inter", style |-> Italic]}}
    /\ figma = FigmaIdle

NextRanges == ReceiveImport \/ FigmaStep

SpecRanges == InitRanges /\ [][NextRanges]_vars

-----------------------------------------------------------------------------
(* Claims about the style ranges.                                          *)

\* the font safeLoadFont resolves fontName to with the loadable fonts fonts
resolved(fontName, fonts) ==
    LET vs == variationsOf[fontName.style]
        loadable == {k \in 1..Len(vs) : [family |-> fontName.family, style |-> vs[k]] \in fonts}
    IN  IF loadable # {}
        THEN [family |-> fontName.family, style |-> vs[SetMin(loadable)]]
        ELSE InterRegular

\* the range-level calls the ranges of data ask for, range by range
RangeCallsOf(data, fonts) ==
    LET ranges == data.styleRanges
    IN  Flatten([i \in 1..Len(ranges) |->
                    applyRange(ranges[i], resolved(fontToLoad(ranges[i]), fonts),
                               Len(GetOr(data, "characters", <<>>)))],
                1, Len(ranges))

\* createLayer is at work on a TEXT node with style ranges
RangesAtWork(calls) ==
    /\ calls # <<>>
    /\ \E k \in 1..Len(calls) :
          /\ calls[k].kind = "createLayer"
          /\ calls[k].pc = "range"

\* C23: for a TEXT node with style ranges, no range-level call is made on the
\* native text node while the font of a range is still being resolved, the
\* step that makes the range-level calls makes them all, after the last load
\* has settled, and makes them range by range in the order of the IR's list,
\* each font call with the font resolved for its range.
C23_FontsBeforeRanges ==
    /\ [](RangesAtWork(figma.calls) =>
             \A k \in 1..Len(figma.calls) :
                figma.calls[k].kind = "createLayer" /\ figma.calls[k].pc = "range"
                    => figma.scene[figma.calls[k].layer].rangeCalls = <<>>)
    /\ [][\A id \in 1..Len(figma'.scene) :
             (/\ Has(ir, "styleRanges")
              /\ figma'.scene[id].rangeCalls #
                    (IF id <= Len(figma.scene) THEN figma.scene[id].rangeCalls ELSE <<>>))
                 => /\ Top(figma.calls).kind = "createLayer"
                    /\ Top(figma.calls).pc = "range"
                    /\ Top(figma.calls).layer = id
                    /\ Len(Top(figma.calls).actualFontNames) + 1 = Len(ir.styleRanges)
                    /\ isFontName(Top(figma.calls).awaited)
                    /\ figma'.loads = figma.loads
                    /\ ~RangesAtWork(figma'.calls)
                    /\ figma'.scene[id].rangeCalls = RangeCallsOf(ir, catalog)]_vars

\* two ranges were applied, the first with its size and the second with its
\* link, after the loads of both fonts
C23_Witness ==
    /\ figma.phase = "done"
    /\ Has(ir, "styleRanges")
    /\ Len(figma.scene) = 1
    /\ Len(figma.loads) >= 3
    /\ Len(figma.scene[1].rangeCalls) > 4
    /\ figma.scene[1].rangeCalls[1].method = "setRangeFontSize"
    /\ figma.scene[1].rangeCalls[1].start = 1
    /\ figma.scene[1].rangeCalls[Len(figma.scene[1].rangeCalls)].method = "setRangeHyperlink"
    /\ figma.scene[1].rangeCalls[Len(figma.scene[1].rangeCalls)].start = 0

\* C25: every range-level call made on a native text node has offsets with
\* 0 <= start < end <= length of the node's characters; for a node with
\* style ranges the calls are those of the ranges that are not empty once
\* their end is cut to the length of the characters, with the end cut, and
\* a range that is empty then gets no call.
C25_RangeCallsWithinText ==
    \A id \in 1..Len(figma.scene) :
        LET layer == figma.scene[id]
            length == Len(layer.characters)
            calls == layer.rangeCalls
        IN  /\ \A k \in 1..Len(calls) :
                  /\ 0 <= calls[k].start
                  /\ calls[k].start < calls[k].end
                  /\ calls[k].end <= length
            /\ (Has(ir, "styleRanges") /\ calls # <<>>) =>
                  {<<calls[k].start, calls[k].end>> : k \in 1..Len(calls)}
                      = {<<r.start, Min(r.end, length)>> :
                            r \in {ir.styleRanges[i] : i \in 1..Len(ir.styleRanges)}
                                      \ {r \in {ir.styleRanges[i] : i \in 1..Len(ir.styleRanges)} :
                                             r.start >= r.end \/ r.start >= length}}

\* a range that ends behind the text got its calls with the end cut, and an
\* empty range got none
C25_Witness ==
    /\ figma.phase = "done"
    /\ Has(ir, "styleRanges")
    /\ Len(ir.styleRanges) = 2
    /\ ir.styleRanges[1].end = Len(ir.characters) + 1
    /\ ir.styleRanges[1].start < Len(ir.characters)
    /\ ir.styleRanges[2].start = ir.styleRanges[2].end
    /\ Len(figma.scene) = 1
    /\ figma.scene[1].rangeCalls # <<>>
    /\ \A k \in 1..Len(figma.scene[1].rangeCalls) :
          /\ figma.scene[1].rangeCalls[k].start = ir.styleRanges[1].start
          /\ figma.scene[1].rangeCalls[k].end = Len(ir.characters)

-----------------------------------------------------------------------------
(* Claims about the order of the font fallback.                            *)

SemiBoldUnspaced == <<"S", "e", "m", "i", "B", "o", "l", "d">>

\* the styles to attempt for a requested style, as the fallback is specified:
\* the style, the style without whitespace, the style with a space at each
\* change from lower to upper case, for a style that names bold or semi
\* Bold, Semi Bold and Medium, and Regular, none of them twice
Candidates(style) ==
    CASE style = Regular -> <<Regular>>
      [] style = Bold -> <<Bold, SemiBold, Medium, Regular>>
      [] style = SemiBold -> <<SemiBold, SemiBoldUnspaced, Bold, Medium, Regular>>
      [] style = SemiBoldUnspaced -> <<SemiBoldUnspaced, SemiBold, Bold, Medium, Regular>>
      [] style = Bold \o <<" ">> \o Italic ->
            <<Bold \o <<" ">> \o Italic, Bold \o Italic, Bold, SemiBold, Medium, Regular>>
      [] style = <<"D", "e", "m", "i", " ", "B", "o", "l", "d", "I", "t", "a", "l", "i", "c">> ->
            <<style, <<"D", "e", "m", "i", "B", "o", "l", "d", "I", "t", "a", "l", "i", "c">>,
              <<"D", "e", "m", "i", " ", "B", "o", "l", "d", " ", "I", "t", "a", "l", "i", "c">>,
              Bold, SemiBold, Medium, Regular>>

\* C24: the loads safeLoadFont asks for are, in order, the candidates of the
\* requested family and then Inter Regular, up to and including the first
\* that can be loaded; the call returns that font, and Inter Regular is asked
\* for as the default only when every candidate has failed.
C24_FallbackOrder ==
    figma.loads # <<>> =>
        LET requested == figma.loads[1]
            candidates == Candidates(requested.style)
            attempts == [k \in 1..Len(candidates) |->
                            [family |-> requested.family, style |-> candidates[k]]]
                            \o <<InterRegular>>
            loadable == {k \in 1..Len(attempts) : attempts[k] \in catalog}
            last == IF loadable = {} THEN Len(attempts) ELSE SetMin(loadable)
        IN  /\ Len(figma.loads) <= last
            /\ figma.loads = SubSeq(attempts, 1, Len(figma.loads))
            /\ figma.phase = "done" =>
                  /\ Len(figma.loads) = last
                  /\ figma.result = IF loadable = {} THEN InterRegular ELSE attempts[last]

\* Roboto Semi Bold was asked for and only Roboto Medium can be loaded: the
\* fourth attempt succeeds, after Semi Bold, SemiBold and Bold
C24_Witness ==
    /\ figma.phase = "done"
    /\ figma.loads # <<>>
    /\ figma.loads[1] = [family |-> "Roboto", style |-> SemiBold]
    /\ Len(figma.loads) = 4
    /\ figma.result = [family |-> "Roboto", style |-> Medium]

\* every candidate of Inter has failed, Bold Italic was asked for, and the
\* default is attempted last
C24_DefaultLast ==
    /\ figma.phase = "done"
    /\ figma.loads # <<>>
    /\ figma.loads[1].family = "Roboto"
    /\ Len(figma.loads) = 7
    /\ figma.loads[7] = InterRegular
    /\ figma.result = InterRegular

-----------------------------------------------------------------------------
(* Extractor: parseGradients.  Strings are sequences of characters.        *)

\* the least i from from on at which sub occurs in s, or 0
indexOf(s, sub, from) ==
    LET found == {i \in from..(Len(s) - Len(sub) + 1) : SubSeq(s, i, i + Len(sub) - 1) = sub}
    IN  IF found = {} THEN 0 ELSE SetMin(found)

\* gradientString.match(/linear-gradient\((.*)\)/)[1]: what lies between the
\* first "linear-gradient(" and the last ")" behind it, or NoMatch
linearGradientMatch(s) ==
    LET name == <<"l", "i", "n", "e", "a", "r", "-", "g", "r", "a", "d", "i", "e", "n", "t", "(">>
        at == indexOf(s, name, 1)
        inner == at + Len(name)
        closing == {j \in inner..Len(s) : s[j] = ")"}
    IN  IF at = 0 \/ closing = {} THEN NoMatch
        ELSE <<Str(SubSeq(s, inner, SetMax(closing) - 1))>>

\* match[1].split(/,(?![^(]*\))/): s is cut at the commas that are not
\* followed by a ")" with no "(" before it
splitStops(s) ==
    LET inside(i) == \E j \in (i + 1)..Len(s) :
                        /\ s[j] = ")"
                        /\ \A k \in (i + 1)..(j - 1) : s[k] # "("
        cuts == SetToSortedSeq({i \in 1..Len(s) : s[i] = "," /\ ~inside(i)})
        from(k) == IF k = 1 THEN 1 ELSE cuts[k - 1] + 1
        to(k) == IF k = Len(cuts) + 1 THEN Len(s) ELSE cuts[k] - 1
    IN  [k \in 1..(Len(cuts) + 1) |-> SubSeq(s, from(k), to(k))]

\* the class [a-fA-F0-0]
HexClass == {"a", "b", "c", "d", "e", "f", "A", "B", "C", "D", "E", "F", "0"}

\* part.match(/rgba?\(.*?\)|#[a-fA-F0-0]{3,6}/)[0], or NoMatch
colorMatch(part) ==
    LET rgbAt(i) ==
            LET open == IF i + 3 <= Len(part) /\ part[i + 3] = "a" THEN i + 4 ELSE i + 3
                close == indexOf(part, <<")">>, open + 1)
            IN  IF /\ indexOf(part, <<"r", "g", "b">>, i) = i
                   /\ open <= Len(part) /\ part[open] = "("
                   /\ close # 0
                THEN SubSeq(part, i, close) ELSE <<>>
        hexAt(i) ==
            IF part[i] = "#" /\ Run(part, i + 1, HexClass) >= 3
            THEN SubSeq(part, i, i + Min(Run(part, i + 1, HexClass), 6)) ELSE <<>>
        matchAt(i) == IF rgbAt(i) # <<>> THEN rgbAt(i) ELSE hexAt(i)
        starts == {i \in 1..Len(part) : matchAt(i) # <<>>}
    IN  IF starts = {} THEN NoMatch ELSE <<Str(matchAt(SetMin(starts)))>>

RECURSIVE gradientStops(_, _)
\* the stops pushed by the first n passes of the loop over parts
gradientStops(parts, n) ==
    IF n = 0 THEN <<>>
    ELSE LET stops == gradientStops(parts, n - 1)
             matched == colorMatch(parts[n])
         IN  IF matched = NoMatch THEN stops
             ELSE Append(stops, [color |-> parseColor(matched[1]),
                                 position |-> Fraction(Len(stops), Len(parts) - 1)])

\* parseGradients(gradientString), gradientString being a string or absent
parseGradients(gradientString) ==
    IF \/ gradientString = Null
       \/ gradientString = Str(<<>>)
       \/ gradientString = Str(<<"n", "o", "n", "e">>)
       \/ ~includes(gradientString.string, <<"g", "r", "a", "d", "i", "e", "n", "t">>)
    THEN <<>>
    ELSE LET match == linearGradientMatch(gradientString.string)
         IN  IF match = NoMatch THEN <<>>
             ELSE LET parts == splitStops(match[1].string)
                      stops == gradientStops(parts, Len(parts))
                  IN  IF Len(stops) < 2 THEN <<>>
                      ELSE <<[type |-> "GRADIENT_LINEAR",
                              gradientStops |-> stops,
                              gradientTransform |-> <<<<1, 0, 0>>, <<0, 1, 0>>>>]>>

-----------------------------------------------------------------------------
(* Gradients: the inputs.  A background image as computed styles hold it:  *)
(* none, a radial gradient, or a linear gradient with or without a         *)
(* direction or an angle and with up to MaxStops stops, each a colour in   *)
(* functional notation, with or without a position, or a word.             *)

MaxStops == 3

Directions == {<<>>, <<"t", "o", " ", "r", "i", "g", "h", "t">>, <<"4", "5", "d", "e", "g">>}

StopTexts ==
    [red |-> <<"r", "g", "b", "(", "2", "5", "5", ",", " ", "0", ",", " ", "0", ")">>, blue |-> <<"r", "g", "b", "a", "(", "0", ",", " ", "0", ",", " ", "2", "5", "5", ",", " ", "0", ".", "5", ")", " ", "5", "0", "%">>, white |-> <<"#", "f", "f", "f">>, word |-> <<"c", "u", "r", "r", "e", "n", "t", "c", "o", "l", "o", "r">>]

Recognized == {"red", "blue", "white"}

GradientInputs ==
    {[form |-> "absent"], [form |-> "none"], [form |-> "radial"]}
        \cup {[form |-> "linear", direction |-> direction, stops |-> stops] :
                 direction \in Directions,
                 stops \in UNION {[1..n -> DOMAIN StopTexts] : n \in 0..MaxStops}}

RECURSIVE joined(_, _)
\* the first n of parts with ", " between them
joined(parts, n) ==
    IF n = 0 THEN <<>>
    ELSE IF n = 1 THEN parts[1]
    ELSE joined(parts, n - 1) \o <<",", " ">> \o parts[n]

\* the value parseGradients is called with for an input
GradientString(input) ==
    CASE input.form = "absent" -> Null
      [] input.form = "none" -> Str(<<"n", "o", "n", "e">>)
      [] input.form = "radial" ->
            Str(<<"r", "a", "d", "i", "a", "l", "-", "g", "r", "a", "d", "i", "e", "n", "t">> \o <<"(">> \o <<"r", "g", "b", "(", "2", "5", "5", ",", " ", "0", ",", " ", "0", ")">> \o <<",", " ">> \o <<"r", "g", "b", "a", "(", "0", ",", " ", "0", ",", " ", "2", "5", "5", ",", " ", "0", ".", "5", ")", " ", "5", "0", "%">> \o <<")">>)
      [] input.form = "linear" ->
            LET parts == (IF input.direction = <<>> THEN <<>> ELSE <<input.direction>>)
                            \o [i \in 1..Len(input.stops) |-> StopTexts[input.stops[i]]]
            IN  Str(<<"l", "i", "n", "e", "a", "r", "-", "g", "r", "a", "d", "i", "e", "n", "t", "(">> \o joined(parts, Len(parts)) \o <<")">>)

ParseGradientsCall(input) == [kind |-> "parseGradients", pc |-> "enter", input |-> input]

InitGradient ==
    /\ dom = Document({Element(1, "BODY", <<>>)}, 1)
    /\ stack \in {<<ParseGradientsCall(input)>> : input \in GradientInputs}
    /\ out = Pending
    /\ op = "running"
    /\ SynthIdle

\* parseGradients returns
ReturnParseGradients ==
    /\ stack # <<>>
    /\ stack[1].kind = "parseGradients"
    /\ out' = [input |-> stack[1].input,
               value |-> parseGradients(GradientString(stack[1].input))]
    /\ stack' = <<>>
    /\ op' = "parseGradients"
    /\ UNCHANGED dom
    /\ UNCHANGED synthVars

NextGradient == ReturnParseGradients

SpecGradient == InitGradient /\ [][NextGradient]_vars

-----------------------------------------------------------------------------
(* Claims about parseGradients.                                            *)

\* the colours of the stops of input that are recognized, in order
StopColors(input) ==
    LET colors == [red |-> Rgba(255, 0, 0, 255),
                   blue |-> [Rgba(0, 0, 255, 255) EXCEPT !.a = Fraction(1, 2)],
                   white |-> Rgba(255, 255, 255, 255)]
        stops == SelectSeq(input.stops, LAMBDA stop : stop \in Recognized)
    IN  [i \in 1..Len(stops) |-> colors[stops[i]]]

\* C26: for a linear gradient with n >= 2 recognized colour stops,
\* parseGradients returns one linear-gradient fill whose stops carry the
\* colours in order and the positions i / (n - 1), the first 0 and the last
\* 1, with or without a direction or angle before the stops; with fewer than
\* two recognized stops, and for no linear gradient, it returns no fill.
C26_EvenlySpacedStops ==
    op = "parseGradients" =>
        LET expected == IF out.input.form = "linear" THEN StopColors(out.input) ELSE <<>>
            n == Len(expected)
        IN  IF n < 2 THEN out.value = <<>>
            ELSE /\ Len(out.value) = 1
                 /\ out.value[1].type = "GRADIENT_LINEAR"
                 /\ Len(out.value[1].gradientStops) = n
                 /\ \A i \in 1..n :
                       /\ SameColor(out.value[1].gradientStops[i].color, expected[i])
                       /\ SameNumber(out.value[1].gradientStops[i].position,
                                     Fraction(i - 1, n - 1))

-----------------------------------------------------------------------------
(* Text containers: the inputs.  A paragraph with up to MaxKids children:  *)
(* text nodes, spans that are plain, have a background, a border or an     *)
(* inline-flex display, a block, a comment.  The paragraph is plain, or    *)
(* has a background colour, a background image, a border on one side, or   *)
(* is a flex or a grid container.  isTextContainer is called for any node  *)
(* of the document, by the extractor of the plugin's bundle and by the     *)
(* content script of the extension.                                        *)

MaxKids == 2

KidKinds == {"text", "span", "spanBackground", "spanBorder", "spanFlex", "div", "comment"}

Kid(id, kind) ==
    CASE kind = "text" -> TextNode(id, <<"a">>)
      [] kind = "comment" -> [TextNode(id, <<"a">>) EXCEPT !.nodeType = "COMMENT_NODE",
                                                            !.tagName = "#comment"]
      [] kind = "span" -> Element(id, "SPAN", <<>>)
      [] kind = "spanBackground" ->
            [Element(id, "SPAN", <<>>) EXCEPT !.style.backgroundColor.a = 1]
      [] kind = "spanBorder" -> [Element(id, "SPAN", <<>>) EXCEPT !.style.borderTopWidth = 1]
      [] kind = "spanFlex" -> WithStyle(Element(id, "SPAN", <<>>), "display", "inline-flex")
      [] kind = "div" -> Element(id, "DIV", <<>>)

ParagraphKinds == {"plain", "background", "image", "border", "flex", "grid"}

Paragraph(kind, childNodes) ==
    LET p == Element(2, "P", childNodes)
    IN  CASE kind = "plain" -> p
          [] kind = "background" -> [p EXCEPT !.style.backgroundColor.a = 1]
          [] kind = "image" -> WithStyle(p, "backgroundImage", "url")
          [] kind = "border" -> [p EXCEPT !.style.borderLeftWidth = 1]
          [] kind = "flex" -> WithStyle(p, "display", "flex")
          [] kind = "grid" -> WithStyle(p, "display", "inline-grid")

Paragraphs ==
    UNION {{Document({Element(1, "BODY", <<2>>),
                      Paragraph(kind, [i \in 1..n |-> i + 2])}
                         \cup {Kid(i + 2, kids[i]) : i \in 1..n}, 1) :
               kind \in ParagraphKinds, kids \in [1..n -> KidKinds]} :
           n \in 0..MaxKids}

InitContainer ==
    /\ dom \in Paragraphs
    /\ stack = <<>>
    /\ out = Pending
    /\ op = "idle"
    /\ SynthIdle

\* isTextContainer(node) of the extractor in the plugin's bundle
CallIsTextContainer(node) ==
    /\ op = "idle"
    /\ out' = [script |-> "code.js", node |-> node, value |-> isTextContainer(Node(node))]
    /\ op' = "isTextContainer"
    /\ UNCHANGED <<dom, stack>>
    /\ UNCHANGED synthVars

\* isTextContainer(node) of the content script
CallContentIsTextContainer(node) ==
    /\ op = "idle"
    /\ out' = [script |-> "content.js", node |-> node,
               value |-> contentIsTextContainer(Node(node))]
    /\ op' = "isTextContainer"
    /\ UNCHANGED <<dom, stack>>
    /\ UNCHANGED synthVars

NextContainer ==
    \/ \E node \in DOMAIN dom.nodes : CallIsTextContainer(node)
    \/ \E node \in DOMAIN dom.nodes : CallContentIsTextContainer(node)

SpecContainer == InitContainer /\ [][NextContainer]_vars

-----------------------------------------------------------------------------
(* Claims about isTextContainer.                                           *)

\* node is a text container as specified
TextContainer(node) ==
    /\ node.nodeType = "ELEMENT_NODE"
    /\ Len(node.childNodes) >= 1
    /\ node.style.backgroundColor.a = 0
    /\ node.style.backgroundImage = "none"
    /\ node.style.borderTopWidth = 0 /\ node.style.borderRightWidth = 0
    /\ node.style.borderBottomWidth = 0 /\ node.style.borderLeftWidth = 0
    /\ node.style.display \notin {"flex", "inline-flex", "grid", "inline-grid"}
    /\ \A i \in 1..Len(node.childNodes) :
          LET child == Node(node.childNodes[i])
          IN  \/ child.nodeType = "TEXT_NODE"
              \/ /\ child.nodeType = "ELEMENT_NODE"
                 /\ child.tagName \in {"SPAN", "STRONG", "B", "EM", "I", "A", "CODE", "SUB",
                                       "SUP", "LABEL", "MARK", "SMALL", "BR"}
                 /\ child.style.display \notin {"flex", "inline-flex", "grid", "inline-grid"}

\* C27: isTextContainer(node) is true exactly when node is an element with
\* at least one child, without visible background colour or image, without
\* a border side of non-zero width, not a flex or grid container, all of
\* whose children are text nodes or whitelisted inline elements that are not
\* flex or grid containers, whatever the background or border of an inline
\* child.
C27_TextContainerExactly ==
    op = "isTextContainer" => (out.value <=> TextContainer(Node(out.node)))

-----------------------------------------------------------------------------
(* Passwords: the inputs.  A login form: BODY holds an input of type text  *)
(* with a user name and an input of type password, with or without a       *)
(* placeholder, into which up to MaxTyped characters are typed.  The page   *)
(* is captured, the user types another password, and the page is captured  *)
(* again.                                                                  *)

MaxTyped == 2

Typed == UNION {[1..n -> {"a", "b"}] : n \in 0..MaxTyped}

Login(user, placeholder, password) ==
    Document({Element(1, "BODY", <<2, 3>>),
              [Element(2, "INPUT", <<>>) EXCEPT
                  !.inputType = "text", !.value = user, !.rect.top = 10],
              [Element(3, "INPUT", <<>>) EXCEPT
                  !.inputType = "password", !.value = password,
                  !.placeholder = placeholder, !.rect.top = 40]}, 1)

InitPassword ==
    /\ dom \in {Login(user, placeholder, password) :
                   user \in {<<>>, <<"u">>},
                   placeholder \in {<<>>, <<"p", "w">>},
                   password \in Typed}
    /\ stack = <<>>
    /\ out = Pending
    /\ op = "idle"
    /\ SynthIdle

\* the user replaces the text of the password field, the third node of the
\* login form, between two captures
TypePassword(text) ==
    /\ op = "onMessage"
    /\ ir = Null
    /\ dom.nodes[3].value # text
    /\ dom' = [dom EXCEPT !.nodes[3].value = text]
    /\ UNCHANGED <<stack, out, op>>
    /\ UNCHANGED synthVars

NextPassword ==
    \/ ReceiveCapture
    \/ CaptureStep
    \/ \E text \in Typed : TypePassword(text)
    \/ ReceiveCaptureAgain

SpecPassword == InitPassword /\ [][NextPassword]_vars

\* C28: the IR does not depend on the text typed into an input of type
\* password: the capture of a document and the capture of the document that
\* differs from it only in the value of the password field respond with the
\* same tree.
C28_PasswordNotCaptured ==
    (op = "onMessage" /\ ir # Null) => out = [data |-> ir]

-----------------------------------------------------------------------------
(* Claims about the effect of safeLoadFont on the document.                *)

\* C29: safeLoadFont adds no node to the document: no step of a call of
\* safeLoadFont changes the nodes of the document, whichever attempt gives
\* the result, the last resort after the failure of Inter Regular included.
C29_FontLoadAddsNoNode ==
    [][(figma.calls # <<>> /\ Top(figma.calls).kind = "safeLoadFont")
          => figma'.scene = figma.scene]_vars

-----------------------------------------------------------------------------
(* The popup of the extension: the click handler of the capture button.    *)
(* stack holds the activation of the handler, out the popup as the user    *)
(* sees it and a log of the calls the handler has made to the browser:     *)
(* out.status is the text of the status line, out.log the calls of the     *)
(* click at work, each with the way it settled, out.clipboard the length  *)
(* of the text on the clipboard.                                           *)

MaxClicks == 3

\* the messages of chrome.runtime.lastError and of a rejected injection
NoReceiver == <<"C", "o", "u", "l", "d", " ", "n", "o", "t", " ", "e", "s", "t", "a", "b", "l", "i", "s", "h", " ", "c", "o", "n", "n", "e", "c", "t", "i", "o", "n", ".", " ", "R", "e", "c", "e", "i", "v", "i", "n", "g", " ", "e", "n", "d", " ", "d", "o", "e", "s", " ", "n", "o", "t", " ", "e", "x", "i", "s", "t", ".">>
PortClosed == <<"T", "h", "e", " ", "m", "e", "s", "s", "a", "g", "e", " ", "p", "o", "r", "t", " ", "c", "l", "o", "s", "e", "d", " ", "b", "e", "f", "o", "r", "e", " ", "a", " ", "r", "e", "s", "p", "o", "n", "s", "e", " ", "w", "a", "s", " ", "r", "e", "c", "e", "i", "v", "e", "d", ".">>
NoAccess == <<"C", "a", "n", "n", "o", "t", " ", "a", "c", "c", "e", "s", "s", " ", "a", " ", "c", "h", "r", "o", "m", "e", ":", "/", "/", " ", "U", "R", "L">>

\* the responses of the content script: the captured tree, whose JSON text
\* has the length given, the error of a capture that failed, or none
Responses ==
    {[data |-> [length |-> 500]], [data |-> [length |-> 2000]],
     [error |-> "Failed to capture"], Null}

\* the ways chrome.tabs.sendMessage settles
SendOutcomes ==
    {[rejected |-> FALSE, response |-> response] : response \in Responses}
        \cup {[rejected |-> TRUE, message |-> message] : message \in {NoReceiver, PortClosed}}

\* the ways chrome.scripting.executeScript settles
InjectOutcomes == {[rejected |-> FALSE], [rejected |-> TRUE, message |-> NoAccess]}

Status(text, detail) == [text |-> text, detail |-> detail]

\* the handler retries after every failure
retryAlways(message) == TRUE

\* err.message.includes('Could not establish connection')
isConnectionError(message) == includes(message, <<"C", "o", "u", "l", "d", " ", "n", "o", "t", " ", "e", "s", "t", "a", "b", "l", "i", "s", "h", " ", "c", "o", "n", "n", "e", "c", "t", "i", "o", "n">>)

Logged(popup, call, outcome) ==
    [popup EXCEPT !.log = Append(@, [call |-> call, rejected |-> outcome.rejected])]

\* the outer catch block
failedClick(popup, message) == [popup EXCEPT !.status = Status("Error: ", message)]

InitPopup ==
    /\ dom = Document({Element(1, "BODY", <<>>)}, 1)
    /\ stack = <<>>
    /\ out = [clicks |-> 0, log |-> <<>>, status |-> Status("", <<>>), clipboard |-> 0]
    /\ op = "idle"
    /\ SynthIdle

\* the user clicks the capture button: the handler sets the status and
\* awaits chrome.tabs.query
Click ==
    /\ stack = <<>>
    /\ out.clicks < MaxClicks
    /\ stack' = <<[kind |-> "click", pc |-> "query"]>>
    /\ out' = [out EXCEPT !.clicks = @ + 1, !.log = <<>>,
                          !.status = Status("Capturing...", <<>>)]
    /\ op' = "running"
    /\ UNCHANGED dom
    /\ UNCHANGED synthVars

\* chrome.tabs.query fulfils, and the handler calls sendMessage
QueryTabs ==
    /\ stack # <<>> /\ stack[1].kind = "click" /\ stack[1].pc = "query"
    /\ stack' = <<[stack[1] EXCEPT !.pc = "send"]>>
    /\ UNCHANGED <<dom, out, op>>
    /\ UNCHANGED synthVars

\* what follows a response: the JSON text goes to the clipboard, or the
\* status tells that there is no data
responded(popup, response) ==
    IF response # Null /\ Has(response, "data")
    THEN [stack |-> <<[kind |-> "click", pc |-> "copy", length |-> response.data.length,
                       sizeKB |-> (2 * response.data.length + 1024) \div 2048]>>,
          out |-> popup]
    ELSE [stack |-> <<>>,
          out |-> [popup EXCEPT
                      !.status = Status("No data captured or page too complex.", <<>>)]]

\* the first sendMessage settles
SendMessage(outcome) ==
    /\ stack # <<>> /\ stack[1].kind = "click" /\ stack[1].pc = "send"
    /\ LET popup == Logged(out, "sendMessage", outcome)
           next == IF ~outcome.rejected THEN responded(popup, outcome.response)
                   ELSE IF isConnectionError(outcome.message)
                   THEN [stack |-> <<[stack[1] EXCEPT !.pc = "inject"]>>,
                         out |-> [popup EXCEPT
                                     !.status = Status("Injecting script...", <<>>)]]
                   ELSE [stack |-> <<>>, out |-> failedClick(popup, outcome.message)]
       IN  /\ stack' = next.stack
           /\ out' = next.out
           /\ op' = IF next.stack = <<>> THEN "click" ELSE op
    /\ UNCHANGED dom
    /\ UNCHANGED synthVars

\* chrome.scripting.executeScript settles
ExecuteScript(outcome) ==
    /\ stack # <<>> /\ stack[1].kind = "click" /\ stack[1].pc = "inject"
    /\ LET popup == Logged(out, "executeScript", outcome)
       IN  IF outcome.rejected
           THEN /\ stack' = <<>>
                /\ out' = failedClick(popup, outcome.message)
                /\ op' = "click"
           ELSE /\ stack' = <<[stack[1] EXCEPT !.pc = "wait"]>>
                /\ out' = popup
                /\ op' = op
    /\ UNCHANGED dom
    /\ UNCHANGED synthVars

\* the timer of 100 ms fires, and the handler calls sendMessage again
Timeout ==
    /\ stack # <<>> /\ stack[1].kind = "click" /\ stack[1].pc = "wait"
    /\ stack' = <<[stack[1] EXCEPT !.pc = "resend"]>>
    /\ UNCHANGED <<dom, out, op>>
    /\ UNCHANGED synthVars

\* the second sendMessage settles
SendMessageAgain(outcome) ==
    /\ stack # <<>> /\ stack[1].kind = "click" /\ stack[1].pc = "resend"
    /\ LET popup == Logged(out, "sendMessage", outcome)
           next == IF ~outcome.rejected THEN responded(popup, outcome.response)
                   ELSE [stack |-> <<>>, out |-> failedClick(popup, outcome.message)]
       IN  /\ stack' = next.stack
           /\ out' = next.out
           /\ op' = IF next.stack = <<>> THEN "click" ELSE op
    /\ UNCHANGED dom
    /\ UNCHANGED synthVars

\* navigator.clipboard.writeText settles
WriteText(rejected) ==
    /\ stack # <<>> /\ stack[1].kind = "click" /\ stack[1].pc = "copy"
    /\ stack' = <<>>
    /\ out' = [Logged(out, "writeText", [rejected |-> rejected]) EXCEPT
                  !.status = IF rejected THEN Status("Failed to copy: ", <<>>)
                             ELSE Status("Copied to clipboard!", <<stack[1].sizeKB>>),
                  !.clipboard = IF rejected THEN @ ELSE stack[1].length]
    /\ op' = "click"
    /\ UNCHANGED dom
    /\ UNCHANGED synthVars

NextPopup ==
    \/ Click
    \/ QueryTabs
    \/ \E outcome \in SendOutcomes : SendMessage(outcome)
    \/ \E outcome \in InjectOutcomes : ExecuteScript(outcome)
    \/ Timeout
    \/ \E outcome \in SendOutcomes : SendMessageAgain(outcome)
    \/ \E rejected \in BOOLEAN : WriteText(rejected)

SpecPopup == InitPopup /\ [][NextPopup]_vars

-----------------------------------------------------------------------------
(* Claims about the popup.                                                 *)

\* the calls of the click at work, by their names
CallsMade == [k \in 1..Len(out.log) |-> out.log[k].call]

\* C30: for one click the popup sends CAPTURE at most twice and injects the
\* content script at most once; it injects, and sends again, only after the
\* first send has failed for want of a connection; and after any other
\* failure of the first send, and after a failure of the second send, the
\* click ends with the error status, without another call.
C30_RetryOnlyWithoutConnection ==
    /\ [](LET sends == {k \in 1..Len(out.log) : out.log[k].call = "sendMessage"}
              injections == {k \in 1..Len(out.log) : out.log[k].call = "executeScript"}
          IN  /\ Cardinality(sends) <= 2
              /\ Cardinality(injections) <= 1
              /\ injections # {} => injections = {2} /\ out.log[1].rejected
              /\ Cardinality(sends) = 2 =>
                    /\ SubSeq(CallsMade, 1, 3)
                          = <<"sendMessage", "executeScript", "sendMessage">>
                    /\ out.log[1].rejected /\ ~out.log[2].rejected)
    /\ [][\A outcome \in SendOutcomes :
             /\ (SendMessage(outcome) /\ outcome.rejected)
                   => IF includes(outcome.message, <<"C", "o", "u", "l", "d", " ", "n", "o", "t", " ", "e", "s", "t", "a", "b", "l", "i", "s", "h", " ", "c", "o", "n", "n", "e", "c", "t", "i", "o", "n">>)
                      THEN stack' # <<>> /\ stack'[1].pc = "inject"
                      ELSE stack' = <<>> /\ out'.status = Status("Error: ", outcome.message)
             /\ (SendMessage(outcome) /\ ~outcome.rejected)
                   => (stack' = <<>> \/ stack'[1].pc = "copy")
             /\ (SendMessageAgain(outcome) /\ outcome.rejected)
                   => stack' = <<>> /\ out'.status = Status("Error: ", outcome.message)]_vars
    /\ [][(stack = <<>> /\ stack' = <<>>) => out' = out]_vars

\* the first send found no receiver, the script was injected, and the second
\* send failed: the click has ended with the error status after three calls
C30_Witness ==
    /\ op = "click"
    /\ stack = <<>>
    /\ CallsMade = <<"sendMessage", "executeScript", "sendMessage">>
    /\ out.log[3].rejected
    /\ out.status.text = "Error: "

=============================================================================
